---- MODULE Spec2Model ----
(***************************************************************************)
(* Model of the evmd core.                                                 *)
(*                                                                         *)
(* Debug session (packages/core/src/debug-session.ts): the flattening of a *)
(* trace's frame tree into flatSteps and the cursor navigation over it,    *)
(* specification Spec (SpecFlat for the properties of flattenSteps,        *)
(* SpecReads for navigation together with the getters).                    *)
(* Opcode table, assembler and disassembler (packages/core/src/opcodes.ts, *)
(* assembler.ts): specification SpecAsm.  Engine (packages/engine):        *)
(* specification SpecEngine for one call of execute, SpecLifecycle for     *)
(* several calls of execute and resetState on one engine, SpecReason for   *)
(* mapExceptionToReason.  SpecRepeat repeats one forward operation of the  *)
(* session under weak fairness.  Input views of the useDebugger hook       *)
(* (packages/ui-common/src/use-debugger.ts): specification SpecInput.      *)
(*                                                                         *)
(* A Frame object is identified by a number (its reference), given in the  *)
(* order in which the frames were created; the root is frame 1.  A trace   *)
(* is a function from frame references to records                          *)
(*   [steps : Seq(opcode), children : Seq([frame, stepIndex])].            *)
(* A Step is a record holding its opcode, the only field of a step the     *)
(* session reads.  Indices (stepIndex, globalStepIndex) are 0-based as in  *)
(* the source; TLA+ sequences are 1-based, hence the "+ 1" on each access. *)
(***************************************************************************)
EXTENDS Integers, Sequences, FiniteSets, TLC

(* ------------------------------ bounds --------------------------------- *)

\* Largest number of frames in a trace.
MaxFrames == 3

\* Largest number of steps in a trace, summed over its frames.
MaxTotalSteps == 3

\* jumpTo is tried with every index from -JumpSlack to last index + JumpSlack.
JumpSlack == 1

(* --------------------------- program constants ------------------------- *)

OP_ADD == 1
OP_CREATE == 240
OP_CALL == 241
OP_CALLCODE == 242
OP_DELEGATECALL == 244
OP_CREATE2 == 245
OP_STATICCALL == 250

\* Opcodes that create child frames
FRAME_CREATING_OPCODES ==
    {OP_CREATE, OP_CALL, OP_CALLCODE, OP_DELEGATECALL, OP_CREATE2, OP_STATICCALL}

\* The opcodes the steps of the modelled traces are drawn from: a step that
\* spawned a child frame executed a frame-creating opcode; a step that
\* spawned none executed a plain opcode or a call that dispatched no message.
SpawningOpcodes == {OP_CALL, OP_STATICCALL}

PlainOpcodes == {OP_ADD, OP_CALL}

Opcodes == SpawningOpcodes \cup PlainOpcodes

\* The value of `currentStep` on a frame-end marker.
null == <<>>

\* The reference of trace.root.
Root == 1

\* The debug session: its trace, its flatSteps, its cursor and the last call
\* made on it.
VARIABLES trace, flatSteps, globalStepIndex, last

\* The last call of assemble or disassemble: its input and its outcome.
VARIABLE asm

\* The engine and the execution in progress on it.
VARIABLE eng

\* The state of useDebugger that its input views share: inputMode,
\* mnemonicSource, bytecodeSource and lastAssembledBytecodeRef.
VARIABLE hook

vars == <<trace, flatSteps, globalStepIndex, last, asm, eng, hook>>

\* The value of the variables of a component that is not in use.
Idle == [op |-> "idle"]

(* ------------------------------ helpers -------------------------------- *)

RECURSIVE SumTo(_, _)
SumTo(f, n) == IF n = 0 THEN 0 ELSE f[n] + SumTo(f, n - 1)

\* The increasing sequence of the elements of a finite set of integers.
RECURSIVE Ascending(_)
Ascending(S) ==
    IF S = {} THEN <<>>
    ELSE LET m == CHOOSE x \in S : \A y \in S : x <= y
         IN  <<m>> \o Ascending(S \ {m})

(* ------------------------------ the trace ------------------------------ *)

\* The frame tree with n frames, lens[f] steps in frame f, frame f (f > 1)
\* spawned by step at[f] of frame parent[f], and opcode ops[k] for the k-th
\* step counted frame by frame.  Children are listed in creation order.
MakeTrace(n, lens, parent, at, ops) ==
    [f \in 1..n |->
        [steps    |-> [i \in 1..lens[f] |->
                          [opcode |-> ops[SumTo(lens, f - 1) + i]]],
         children |-> LET kids == Ascending({c \in 2..n : parent[c] = f})
                      IN  [k \in 1..Len(kids) |->
                              [frame |-> kids[k], stepIndex |-> at[kids[k]]]]]]

\* Frame a is frame c or an ancestor of it.
RECURSIVE OnPath(_, _, _)
OnPath(parent, a, c) ==
    \/ a = c
    \/ c > 1 /\ OnPath(parent, a, parent[c])

\* The traces a session is built on: every child's stepIndex is the index of
\* a step of its parent, each children list is sorted by stepIndex, and a
\* frame is created while its parent is open (the parent is the frame created
\* just before it or an ancestor of that frame).
WellFormed(n, lens, parent, at) ==
    /\ \A c \in 2..n : parent[c] < c /\ at[c] < lens[parent[c]]
    /\ \A c \in 3..n : OnPath(parent, parent[c], c - 1)
    /\ \A c, d \in 2..n : (c < d /\ parent[c] = parent[d]) => at[c] <= at[d]

\* The opcodes of the steps agree with the children they spawned.
OpcodesFit(n, lens, parent, at, ops) ==
    \A f \in 1..n : \A i \in 0..(lens[f] - 1) :
        ops[SumTo(lens, f - 1) + i + 1] \in
            IF \E c \in 2..n : parent[c] = f /\ at[c] = i
            THEN SpawningOpcodes ELSE PlainOpcodes

(* ---------------------------- flattenSteps ----------------------------- *)

RealStep(frame, i, callStack) ==
    [frame |-> frame, stepIndex |-> i, callStack |-> callStack, isFrameEnd |-> FALSE]

\* FrameEnd without the isFrameEnd flag.
FrameEnd_noFlag(frame, callStack) ==
    [frame |-> frame, stepIndex |-> -1, callStack |-> callStack, isFrameEnd |-> FALSE]

FrameEnd(frame, callStack) ==
    [frame |-> frame, stepIndex |-> -1, callStack |-> callStack, isFrameEnd |-> TRUE]

RECURSIVE visitSteps(_, _, _, _, _), visitChildren(_, _, _, _, _), visit(_, _, _)
RECURSIVE visitChildren_late(_, _, _, _, _)

\* The for loop of visit, from step i on, with childIdx children visited.
visitSteps(tr, frame, callStack, i, childIdx) ==
    IF i < Len(tr[frame].steps)
    THEN <<RealStep(frame, i, callStack)>>
            \o visitChildren(tr, frame, callStack, i, childIdx)
    ELSE <<FrameEnd(frame, callStack)>>

\* visitChildren with `if` in place of `while`: one child per step at most.
visitChildren_if(tr, frame, callStack, i, childIdx) ==
    IF /\ childIdx < Len(tr[frame].children)
       /\ tr[frame].children[childIdx + 1].stepIndex = i
    THEN visit(tr, tr[frame].children[childIdx + 1].frame, callStack)
            \o visitSteps(tr, frame, callStack, i + 1, childIdx + 1)
    ELSE visitSteps(tr, frame, callStack, i + 1, childIdx)

\* visitChildren that emits the child's entries after the rest of the parent's.
visitChildren_late(tr, frame, callStack, i, childIdx) ==
    IF /\ childIdx < Len(tr[frame].children)
       /\ tr[frame].children[childIdx + 1].stepIndex = i
    THEN visitChildren_late(tr, frame, callStack, i, childIdx + 1)
            \o visit(tr, tr[frame].children[childIdx + 1].frame, callStack)
    ELSE visitSteps(tr, frame, callStack, i + 1, childIdx)

\* The while loop of visit at step i, then the rest of the for loop.
visitChildren(tr, frame, callStack, i, childIdx) ==
    IF /\ childIdx < Len(tr[frame].children)
       /\ tr[frame].children[childIdx + 1].stepIndex = i
    THEN visit(tr, tr[frame].children[childIdx + 1].frame, callStack)
            \o visitChildren(tr, frame, callStack, i, childIdx + 1)
    ELSE visitSteps(tr, frame, callStack, i + 1, childIdx)

\* visit with the frame alone as the call stack of its entries.
visit_ownStack(tr, frame, parentStack) ==
    visitSteps(tr, frame, <<frame>>, 0, 0)

visit(tr, frame, parentStack) ==
    visitSteps(tr, frame, parentStack \o <<frame>>, 0, 0)

flattenSteps(tr) == visit(tr, Root, <<>>)

(* ------------------------------- getters ------------------------------- *)

FlatAt(g) == flatSteps[g + 1]

LastIndex == Len(flatSteps) - 1

currentFrameAt(g) == FlatAt(g).frame

currentStepIndexAt(g) == FlatAt(g).stepIndex

isAtFrameEndAt(g) == FlatAt(g).isFrameEnd = TRUE

currentStepAt(g) ==
    IF FlatAt(g).isFrameEnd THEN null
    ELSE trace[FlatAt(g).frame].steps[FlatAt(g).stepIndex + 1]

getCallStackAt(g) == FlatAt(g).callStack

canStepOverAt(g) ==
    currentStepAt(g) # null /\ currentStepAt(g).opcode \in FRAME_CREATING_OPCODES

canStepOutAt(g) == Len(getCallStackAt(g)) > 1

(* ----------------------------- navigation ------------------------------ *)

\* stepForward that stops one entry early.
stepForwardFrom_early(g) == IF g < Len(flatSteps) - 2 THEN g + 1 ELSE g

stepForwardFrom(g) == IF g < LastIndex THEN g + 1 ELSE g

\* stepBackward without the test for the first index.
stepBackwardFrom_unguarded(g) == g - 1

stepBackwardFrom(g) == IF g > 0 THEN g - 1 ELSE g

Min(a, b) == IF a < b THEN a ELSE b

Max(a, b) == IF a > b THEN a ELSE b

\* jumpTo with Math.min and Math.max exchanged.
jumpToFrom_swapped(globalIndex) == Min(0, Max(globalIndex, Len(flatSteps) - 1))

jumpToFrom(globalIndex) == Max(0, Min(globalIndex, LastIndex))

jumpToEndFrom == LastIndex

\* The while loop of stepOver with the cursor at g.
RECURSIVE stepOverLoop(_, _, _)
stepOverLoop(g, currentFrame, currentStepIdx) ==
    IF g < LastIndex
    THEN IF /\ FlatAt(g + 1).frame = currentFrame
            /\ FlatAt(g + 1).stepIndex # currentStepIdx
         THEN g + 1
         ELSE stepOverLoop(g + 1, currentFrame, currentStepIdx)
    ELSE g

\* stepOver as the stub that only steps forward.
stepOverFrom_stub(g) == stepForwardFrom(g)

\* stepOver without the test for a frame-creating opcode.
stepOverFrom_noGuard(g) == stepOverLoop(g, currentFrameAt(g), currentStepIndexAt(g))

stepOverFrom(g) ==
    IF currentStepAt(g) = null \/ currentStepAt(g).opcode \notin FRAME_CREATING_OPCODES
    THEN stepForwardFrom(g)
    ELSE stepOverLoop(g, currentFrameAt(g), currentStepIndexAt(g))

\* The while loop of stepOut with the cursor at g.
RECURSIVE stepOutLoop(_, _)
stepOutLoop(g, currentDepth) ==
    IF g < LastIndex
    THEN IF Len(FlatAt(g + 1).callStack) < currentDepth
         THEN g + 1
         ELSE stepOutLoop(g + 1, currentDepth)
    ELSE g

\* stepOut as the stub that only steps forward.
stepOutFrom_stub(g) == stepForwardFrom(g)

\* The while loop of a stepOut that goes back to the entry before the frame.
RECURSIVE stepOutLoop_back(_, _)
stepOutLoop_back(g, currentDepth) ==
    IF g > 0
    THEN IF Len(FlatAt(g - 1).callStack) < currentDepth
         THEN g - 1
         ELSE stepOutLoop_back(g - 1, currentDepth)
    ELSE g

\* stepOut returning to the step that made the call.
stepOutFrom_toCaller(g) ==
    IF Len(getCallStackAt(g)) <= 1
    THEN jumpToEndFrom
    ELSE stepOutLoop_back(g, Len(getCallStackAt(g)))

stepOutFrom(g) ==
    IF Len(getCallStackAt(g)) <= 1
    THEN jumpToEndFrom
    ELSE stepOutLoop(g, Len(getCallStackAt(g)))

(* ------------------------------ the session ---------------------------- *)

\* `last` records the last call made on the session: its name and what the
\* call read (the cursor it started from, or its argument), and for the
\* breakpoint methods what it returned and whether it threw.
Stepped(op) == [op |-> op, from |-> globalStepIndex]

Jumped(op, arg) == [op |-> op, arg |-> arg]

Called(op, arg, ret, threw) == [op |-> op, arg |-> arg, ret |-> ret, threw |-> threw]

Init ==
    /\ \E n \in 1..MaxFrames :
       \E lens \in [1..n -> 0..MaxTotalSteps] :
          /\ SumTo(lens, n) <= MaxTotalSteps
          /\ \E parent \in [2..n -> 1..n] :
             \E at \in [2..n -> 0..MaxTotalSteps] :
                /\ WellFormed(n, lens, parent, at)
                /\ \E ops \in [1..SumTo(lens, n) -> Opcodes] :
                      /\ OpcodesFit(n, lens, parent, at, ops)
                      /\ trace = MakeTrace(n, lens, parent, at, ops)
    /\ flatSteps = flattenSteps(trace)
    /\ globalStepIndex = 0
    /\ last = [op |-> "new"]
    /\ asm = Idle
    /\ eng = Idle
    /\ hook = Idle

\* Navigate that advances by dropping the entries behind the new cursor.
Navigate_consuming(call, to) ==
    /\ globalStepIndex' = to
    /\ last' = call
    /\ flatSteps' = SubSeq(flatSteps, 1, to + 1)
    /\ UNCHANGED <<trace, asm, eng, hook>>

Navigate(call, to) ==
    /\ globalStepIndex' = to
    /\ last' = call
    /\ UNCHANGED <<trace, flatSteps, asm, eng, hook>>

stepForward == Navigate(Stepped("stepForward"), stepForwardFrom(globalStepIndex))

stepBackward == Navigate(Stepped("stepBackward"), stepBackwardFrom(globalStepIndex))

stepOver == Navigate(Stepped("stepOver"), stepOverFrom(globalStepIndex))

stepOut == Navigate(Stepped("stepOut"), stepOutFrom(globalStepIndex))

jumpTo ==
    \E globalIndex \in (0 - JumpSlack)..(LastIndex + JumpSlack) :
        Navigate(Jumped("jumpTo", globalIndex), jumpToFrom(globalIndex))

jumpToStart == Navigate([op |-> "jumpToStart"], 0)

jumpToEnd == Navigate([op |-> "jumpToEnd"], jumpToEndFrom)

(* ----------------------------- breakpoints ----------------------------- *)

\* The conditions addBreakpoint is called with.
Conditions == {[pc |-> 0], [opcode |-> OP_CALL]}

\* The ids removeBreakpoint is called with.
BreakpointIds == {"bp-0"}

\* What getBreakpoints returns.
getBreakpointsResult == <<>>

\* Every call throws "addBreakpoint() not yet implemented".
addBreakpoint ==
    \E condition \in Conditions :
        /\ last' = Called("addBreakpoint", condition, null, TRUE)
        /\ UNCHANGED <<trace, flatSteps, globalStepIndex, asm, eng, hook>>

removeBreakpoint ==
    \E id \in BreakpointIds :
        /\ last' = Called("removeBreakpoint", id, null, FALSE)
        /\ UNCHANGED <<trace, flatSteps, globalStepIndex, asm, eng, hook>>

getBreakpoints ==
    /\ last' = Called("getBreakpoints", null, getBreakpointsResult, FALSE)
    /\ UNCHANGED <<trace, flatSteps, globalStepIndex, asm, eng, hook>>

continueForward ==
    /\ last' = Called("continueForward", null, FALSE, FALSE)
    /\ UNCHANGED <<trace, flatSteps, globalStepIndex, asm, eng, hook>>

continueBackward ==
    /\ last' = Called("continueBackward", null, FALSE, FALSE)
    /\ UNCHANGED <<trace, flatSteps, globalStepIndex, asm, eng, hook>>

Next ==
    \/ stepForward
    \/ stepBackward
    \/ stepOver
    \/ stepOut
    \/ jumpTo
    \/ jumpToStart
    \/ jumpToEnd
    \/ addBreakpoint
    \/ removeBreakpoint
    \/ getBreakpoints
    \/ continueForward
    \/ continueBackward

Spec == Init /\ [][Next]_vars

\* The session as built by the constructor, moved only between its two ends:
\* the specification for the properties of flattenSteps.
NextEnds ==
    \/ jumpToStart
    \/ jumpToEnd

SpecFlat == Init /\ [][NextEnds]_vars

(* ---------------------------- derived reads ---------------------------- *)

\* The getters of the session that read through the cursor.
DerivedReads ==
    {"currentFrame", "currentStepIndex", "currentStep", "isAtFrameEnd", "getCallStack"}

\* What the getter returns with the cursor at g.
readOf(getter, g) ==
    CASE getter = "currentFrame" -> currentFrameAt(g)
      [] getter = "currentStepIndex" -> currentStepIndexAt(g)
      [] getter = "currentStep" -> currentStepAt(g)
      [] getter = "isAtFrameEnd" -> isAtFrameEndAt(g)
      [] getter = "getCallStack" -> getCallStackAt(g)

\* A call of one of the getters.
Read ==
    \E getter \in DerivedReads :
        /\ last' = Called(getter, globalStepIndex, readOf(getter, globalStepIndex), FALSE)
        /\ UNCHANGED <<trace, flatSteps, globalStepIndex, asm, eng, hook>>

\* The session with its navigation and its getters.
NextReads ==
    \/ stepForward
    \/ stepBackward
    \/ stepOver
    \/ stepOut
    \/ jumpTo
    \/ jumpToStart
    \/ jumpToEnd
    \/ continueForward
    \/ continueBackward
    \/ Read

SpecReads == Init /\ [][NextReads]_vars

(* ------------------------- repeated forward steps ----------------------- *)

\* The operations that move the cursor forward.
ForwardOps == {"stepForward", "stepOver", "stepOut"}

\* One of the forward operations, made as the first call, after the jump
\* that placed the cursor, or after calls of that same operation only.
Repeat(op) ==
    /\ last.op \in {"new", "jumpTo", op}
    /\ CASE op = "stepForward" -> stepForward
         [] op = "stepOver" -> stepOver
         [] op = "stepOut" -> stepOut

\* The cursor is placed anywhere by a first jumpTo, and then one of the
\* forward operations is repeated.
NextRepeat ==
    \/ last.op = "new" /\ jumpTo
    \/ \E op \in ForwardOps : Repeat(op)

\* The operation chosen is called again and again.
SpecRepeat ==
    /\ Init
    /\ [][NextRepeat]_vars
    /\ \A op \in ForwardOps : WF_vars(Repeat(op))

(* ============================ opcode table ============================== *)

\* An OpcodeInfo: the code, the mnemonic as its sequence of characters and the
\* number of immediate bytes (inputNames and outputNames are not modelled: no
\* operation of the core reads them).
op(code, mnemonic, immediateBytes) ==
    [code |-> code, mnemonic |-> mnemonic, immediateBytes |-> immediateBytes]

\* What a Map lookup returns for a missing key.
undefined == [undefined |-> TRUE]

DecimalDigits == <<"0", "1", "2", "3", "4", "5", "6", "7", "8", "9">>

\* Number.prototype.toString() of a natural number, as characters.
RECURSIVE Decimal(_)
Decimal(n) ==
    IF n < 10 THEN <<DecimalDigits[n + 1]>>
    ELSE Decimal(n \div 10) \o <<DecimalDigits[(n % 10) + 1]>>

\* The entries 0x00 STOP .. 0x5f PUSH0, in table order.
OpcodesBelowPush1 ==
    <<
      op(0, <<"S", "T", "O", "P">>, 0),
      op(1, <<"A", "D", "D">>, 0),
      op(2, <<"M", "U", "L">>, 0),
      op(3, <<"S", "U", "B">>, 0),
      op(4, <<"D", "I", "V">>, 0),
      op(5, <<"S", "D", "I", "V">>, 0),
      op(6, <<"M", "O", "D">>, 0),
      op(7, <<"S", "M", "O", "D">>, 0),
      op(8, <<"A", "D", "D", "M", "O", "D">>, 0),
      op(9, <<"M", "U", "L", "M", "O", "D">>, 0),
      op(10, <<"E", "X", "P">>, 0),
      op(11, <<"S", "I", "G", "N", "E", "X", "T", "E", "N", "D">>, 0),
      op(16, <<"L", "T">>, 0),
      op(17, <<"G", "T">>, 0),
      op(18, <<"S", "L", "T">>, 0),
      op(19, <<"S", "G", "T">>, 0),
      op(20, <<"E", "Q">>, 0),
      op(21, <<"I", "S", "Z", "E", "R", "O">>, 0),
      op(22, <<"A", "N", "D">>, 0),
      op(23, <<"O", "R">>, 0),
      op(24, <<"X", "O", "R">>, 0),
      op(25, <<"N", "O", "T">>, 0),
      op(26, <<"B", "Y", "T", "E">>, 0),
      op(27, <<"S", "H", "L">>, 0),
      op(28, <<"S", "H", "R">>, 0),
      op(29, <<"S", "A", "R">>, 0),
      op(32, <<"K", "E", "C", "C", "A", "K", "2", "5", "6">>, 0),
      op(48, <<"A", "D", "D", "R", "E", "S", "S">>, 0),
      op(49, <<"B", "A", "L", "A", "N", "C", "E">>, 0),
      op(50, <<"O", "R", "I", "G", "I", "N">>, 0),
      op(51, <<"C", "A", "L", "L", "E", "R">>, 0),
      op(52, <<"C", "A", "L", "L", "V", "A", "L", "U", "E">>, 0),
      op(53, <<"C", "A", "L", "L", "D", "A", "T", "A", "L", "O", "A", "D">>, 0),
      op(54, <<"C", "A", "L", "L", "D", "A", "T", "A", "S", "I", "Z", "E">>, 0),
      op(55, <<"C", "A", "L", "L", "D", "A", "T", "A", "C", "O", "P", "Y">>, 0),
      op(56, <<"C", "O", "D", "E", "S", "I", "Z", "E">>, 0),
      op(57, <<"C", "O", "D", "E", "C", "O", "P", "Y">>, 0),
      op(58, <<"G", "A", "S", "P", "R", "I", "C", "E">>, 0),
      op(59, <<"E", "X", "T", "C", "O", "D", "E", "S", "I", "Z", "E">>, 0),
      op(60, <<"E", "X", "T", "C", "O", "D", "E", "C", "O", "P", "Y">>, 0),
      op(61, <<"R", "E", "T", "U", "R", "N", "D", "A", "T", "A", "S", "I", "Z", "E">>, 0),
      op(62, <<"R", "E", "T", "U", "R", "N", "D", "A", "T", "A", "C", "O", "P", "Y">>, 0),
      op(63, <<"E", "X", "T", "C", "O", "D", "E", "H", "A", "S", "H">>, 0),
      op(64, <<"B", "L", "O", "C", "K", "H", "A", "S", "H">>, 0),
      op(65, <<"C", "O", "I", "N", "B", "A", "S", "E">>, 0),
      op(66, <<"T", "I", "M", "E", "S", "T", "A", "M", "P">>, 0),
      op(67, <<"N", "U", "M", "B", "E", "R">>, 0),
      op(68, <<"P", "R", "E", "V", "R", "A", "N", "D", "A", "O">>, 0),
      op(69, <<"G", "A", "S", "L", "I", "M", "I", "T">>, 0),
      op(70, <<"C", "H", "A", "I", "N", "I", "D">>, 0),
      op(71, <<"S", "E", "L", "F", "B", "A", "L", "A", "N", "C", "E">>, 0),
      op(72, <<"B", "A", "S", "E", "F", "E", "E">>, 0),
      op(80, <<"P", "O", "P">>, 0),
      op(81, <<"M", "L", "O", "A", "D">>, 0),
      op(82, <<"M", "S", "T", "O", "R", "E">>, 0),
      op(83, <<"M", "S", "T", "O", "R", "E", "8">>, 0),
      op(84, <<"S", "L", "O", "A", "D">>, 0),
      op(85, <<"S", "S", "T", "O", "R", "E">>, 0),
      op(86, <<"J", "U", "M", "P">>, 0),
      op(87, <<"J", "U", "M", "P", "I">>, 0),
      op(88, <<"P", "C">>, 0),
      op(89, <<"M", "S", "I", "Z", "E">>, 0),
      op(90, <<"G", "A", "S">>, 0),
      op(91, <<"J", "U", "M", "P", "D", "E", "S", "T">>, 0),
      op(92, <<"T", "L", "O", "A", "D">>, 0),
      op(93, <<"T", "S", "T", "O", "R", "E">>, 0),
      op(94, <<"M", "C", "O", "P", "Y">>, 0),
      op(95, <<"P", "U", "S", "H", "0">>, 0)
    >>

\* PushEntries with immediateBytes i in place of i + 1.
PushEntries_offByOne ==
    [k \in 1..32 |->
        LET i == k - 1 IN op(96 + i, <<"P", "U", "S", "H">> \o Decimal(i + 1), i)]

\* 0x60-0x7f: PUSH1 through PUSH32 (Array.from over i = 0 .. 31).
PushEntries ==
    [k \in 1..32 |->
        LET i == k - 1 IN op(96 + i, <<"P", "U", "S", "H">> \o Decimal(i + 1), i + 1)]

\* DupEntries numbered from 0x7f, over PUSH32.
DupEntries_shifted ==
    [k \in 1..16 |->
        LET i == k - 1 IN op(127 + i, <<"D", "U", "P">> \o Decimal(i + 1), 0)]

\* 0x80-0x8f: DUP1 through DUP16.
DupEntries ==
    [k \in 1..16 |->
        LET i == k - 1 IN op(128 + i, <<"D", "U", "P">> \o Decimal(i + 1), 0)]

\* 0x90-0x9f: SWAP1 through SWAP16.
SwapEntries ==
    [k \in 1..16 |->
        LET i == k - 1 IN op(144 + i, <<"S", "W", "A", "P">> \o Decimal(i + 1), 0)]

\* 0xa0-0xa4: LOG0 through LOG4.
LogEntries ==
    <<
      op(160, <<"L", "O", "G", "0">>, 0),
      op(161, <<"L", "O", "G", "1">>, 0),
      op(162, <<"L", "O", "G", "2">>, 0),
      op(163, <<"L", "O", "G", "3">>, 0),
      op(164, <<"L", "O", "G", "4">>, 0)
    >>

\* 0xf0s: System.
SystemEntries ==
    <<
      op(240, <<"C", "R", "E", "A", "T", "E">>, 0),
      op(241, <<"C", "A", "L", "L">>, 0),
      op(242, <<"C", "A", "L", "L", "C", "O", "D", "E">>, 0),
      op(243, <<"R", "E", "T", "U", "R", "N">>, 0),
      op(244, <<"D", "E", "L", "E", "G", "A", "T", "E", "C", "A", "L", "L">>, 0),
      op(245, <<"C", "R", "E", "A", "T", "E", "2">>, 0),
      op(250, <<"S", "T", "A", "T", "I", "C", "C", "A", "L", "L">>, 0),
      op(253, <<"R", "E", "V", "E", "R", "T">>, 0),
      op(254, <<"I", "N", "V", "A", "L", "I", "D">>, 0),
      op(255, <<"S", "E", "L", "F", "D", "E", "S", "T", "R", "U", "C", "T">>, 0)
    >>

opcodeTable ==
    OpcodesBelowPush1 \o PushEntries \o DupEntries \o SwapEntries
        \o LogEntries \o SystemEntries

\* The entry a Map filled by `set` in table order holds for a key: the last
\* entry of the table with that key.
LastEntryWith(hits) ==
    opcodeTable[CHOOSE k \in hits : \A j \in hits : j <= k]

byCode ==
    [c \in {opcodeTable[k].code : k \in 1..Len(opcodeTable)} |->
        LastEntryWith({k \in 1..Len(opcodeTable) : opcodeTable[k].code = c})]

byMnemonic ==
    [m \in {opcodeTable[k].mnemonic : k \in 1..Len(opcodeTable)} |->
        LastEntryWith({k \in 1..Len(opcodeTable) : opcodeTable[k].mnemonic = m})]

getOpcodeByCode(code) ==
    IF code \in DOMAIN byCode THEN byCode[code] ELSE undefined

getOpcodeByMnemonic(mnemonic) ==
    IF mnemonic \in DOMAIN byMnemonic THEN byMnemonic[mnemonic] ELSE undefined

getAllOpcodes == opcodeTable

(* ================================ strings ================================ *)

\* A string is the sequence of its characters, each a one-character string.

Range(s) == {s[k] : k \in DOMAIN s}

LowerCaseLetters ==
    <<"a", "b", "c", "d", "e", "f", "g", "h", "i", "j", "k", "l", "m",
      "n", "o", "p", "q", "r", "s", "t", "u", "v", "w", "x", "y", "z">>

UpperCaseLetters ==
    <<"A", "B", "C", "D", "E", "F", "G", "H", "I", "J", "K", "L", "M",
      "N", "O", "P", "Q", "R", "S", "T", "U", "V", "W", "X", "Y", "Z">>

HexDigits ==
    <<"0", "1", "2", "3", "4", "5", "6", "7", "8", "9",
      "a", "b", "c", "d", "e", "f">>

\* The characters \s matches and trim() removes, of those a source can hold here.
Whitespace == {" ", "\t", "\n", "\r"}

IndexIn(letters, c) == CHOOSE k \in DOMAIN letters : letters[k] = c

toUpperCaseChar(c) ==
    IF c \in Range(LowerCaseLetters)
    THEN UpperCaseLetters[IndexIn(LowerCaseLetters, c)] ELSE c

toLowerCaseChar(c) ==
    IF c \in Range(UpperCaseLetters)
    THEN LowerCaseLetters[IndexIn(UpperCaseLetters, c)] ELSE c

toUpperCase(s) == [k \in DOMAIN s |-> toUpperCaseChar(s[k])]

toLowerCase(s) == [k \in DOMAIN s |-> toLowerCaseChar(s[k])]

\* s.slice(from) with from counted from 0.
sliceFrom(s, from) == SubSeq(s, from + 1, Len(s))

\* s.slice(from, to) with from <= to counted from 0, to clipped to the length.
slice(s, from, to) == SubSeq(s, from + 1, Min(to, Len(s)))

startsWith(s, prefix) ==
    Len(s) >= Len(prefix) /\ SubSeq(s, 1, Len(prefix)) = prefix

RECURSIVE trimStart(_)
trimStart(s) ==
    IF s # <<>> /\ Head(s) \in Whitespace THEN trimStart(Tail(s)) ELSE s

RECURSIVE trimEnd(_)
trimEnd(s) ==
    IF s # <<>> /\ s[Len(s)] \in Whitespace
    THEN trimEnd(SubSeq(s, 1, Len(s) - 1)) ELSE s

trim(s) == trimEnd(trimStart(s))

\* s.split(sep) for a one-character separator.
RECURSIVE split(_, _)
split(s, sep) ==
    IF \E k \in DOMAIN s : s[k] = sep
    THEN LET k == CHOOSE k \in DOMAIN s :
                      s[k] = sep /\ \A j \in 1..(k - 1) : s[j] # sep
         IN  <<SubSeq(s, 1, k - 1)>> \o split(SubSeq(s, k + 1, Len(s)), sep)
    ELSE <<s>>

\* line.split(/\s+/): the pieces between the maximal runs of whitespace.
RECURSIVE splitWhitespace(_)
splitWhitespace(line) ==
    IF \E k \in DOMAIN line : line[k] \in Whitespace
    THEN LET k == CHOOSE k \in DOMAIN line :
                      line[k] \in Whitespace
                          /\ \A j \in 1..(k - 1) : line[j] \notin Whitespace
         IN  <<SubSeq(line, 1, k - 1)>>
                 \o splitWhitespace(trimStart(SubSeq(line, k + 1, Len(line))))
    ELSE <<line>>

\* join giving the first line only.
join_first(lines, sep) == IF lines = <<>> THEN <<>> ELSE lines[1]

RECURSIVE join(_, _)
join(lines, sep) ==
    IF lines = <<>> THEN <<>>
    ELSE IF Len(lines) = 1 THEN lines[1]
    ELSE lines[1] \o sep \o join(Tail(lines), sep)

\* s.padStart(length, "0").
RECURSIVE padStart(_, _)
padStart(s, length) == IF Len(s) >= length THEN s ELSE padStart(<<"0">> \o s, length)

\* value.toString(16) of a natural number.
RECURSIVE toString16(_)
toString16(value) ==
    IF value < 16 THEN <<HexDigits[value + 1]>>
    ELSE toString16(value \div 16) \o <<HexDigits[(value % 16) + 1]>>

\* The digits of a radix: a letter digit counts in either case.
IsDigit(c, radix) ==
    \E k \in 1..radix : HexDigits[k] = toLowerCaseChar(c)

DigitValue(c) == IndexIn(HexDigits, toLowerCaseChar(c)) - 1

RECURSIVE DigitsValue(_, _, _)
DigitsValue(digits, radix, acc) ==
    IF digits = <<>> THEN acc
    ELSE DigitsValue(Tail(digits), radix, acc * radix + DigitValue(Head(digits)))

\* NaN, which is no byte and no member of a set of bytes.
NaN == -1

RECURSIVE LeadingDigits(_, _)
LeadingDigits(s, radix) ==
    IF s # <<>> /\ IsDigit(Head(s), radix)
    THEN <<Head(s)>> \o LeadingDigits(Tail(s), radix) ELSE <<>>

\* parseInt(s, 16): an optional 0x prefix, then the hex digits up to the
\* first character that is none; NaN when there is no digit.
parseInt16(s) ==
    LET t == IF startsWith(toLowerCase(s), <<"0", "x">>) THEN sliceFrom(s, 2) ELSE s
        digits == LeadingDigits(t, 16)
    IN  IF digits = <<>> THEN NaN ELSE DigitsValue(digits, 16, 0)

Returned(value) == [ok |-> TRUE, value |-> value]

Thrown(error) == [ok |-> FALSE, error |-> error]

AllDigits(s, radix) == s # <<>> /\ \A k \in DOMAIN s : IsDigit(s[k], radix)

\* BigInt(s): StringToBigInt.  Surrounding whitespace is dropped, the empty
\* string is 0, a 0x / 0o / 0b prefix takes unsigned digits of its radix, a
\* decimal literal takes an optional sign; anything else is a SyntaxError.
BigInt(s) ==
    LET t == trim(s)
        prefix == toLowerCase(SubSeq(t, 1, Min(2, Len(t))))
        digits == sliceFrom(t, 2)
        radix == IF prefix = <<"0", "x">> THEN 16
                 ELSE IF prefix = <<"0", "o">> THEN 8
                 ELSE IF prefix = <<"0", "b">> THEN 2 ELSE 10
    IN  IF t = <<>> THEN Returned(0)
        ELSE IF radix # 10 THEN
            IF AllDigits(digits, radix)
            THEN Returned(DigitsValue(digits, radix, 0))
            ELSE Thrown("SyntaxError")
        ELSE IF Head(t) \in {"+", "-"} THEN
            IF AllDigits(Tail(t), 10)
            THEN Returned((IF Head(t) = "-" THEN -1 ELSE 1)
                              * DigitsValue(Tail(t), 10, 0))
            ELSE Thrown("SyntaxError")
        ELSE IF AllDigits(t, 10) THEN Returned(DigitsValue(t, 10, 0))
        ELSE Thrown("SyntaxError")

(* =============================== assembler =============================== *)

\* source[i] for i counted from 0: past the end JavaScript gives undefined,
\* which equals no character.
charAt(source, i) == IF i < Len(source) THEN source[i + 1] ELSE ""

\* while (i < source.length && source[i] !== "\n") i++
RECURSIVE skipLineComment(_, _)
skipLineComment(source, i) ==
    IF i < Len(source) /\ charAt(source, i) # "\n"
    THEN skipLineComment(source, i + 1) ELSE i

\* while (i < source.length - 1 && !(source[i] === "*" && source[i + 1] === "/")) i++
RECURSIVE skipBlockComment(_, _)
skipBlockComment(source, i) ==
    IF i < Len(source) - 1
          /\ ~(charAt(source, i) = "*" /\ charAt(source, i + 1) = "/")
    THEN skipBlockComment(source, i + 1) ELSE i

\* stripComments with its block comment loop stopping at a newline too, so
\* that a block comment never swallows a line break.
RECURSIVE stripCommentsFrom_lineBlocks(_, _, _)
stripCommentsFrom_lineBlocks(source, i, result) ==
    IF ~(i < Len(source)) THEN result
    ELSE IF charAt(source, i) = "/" /\ charAt(source, i + 1) = "/"
    THEN stripCommentsFrom_lineBlocks(source, skipLineComment(source, i), result)
    ELSE IF charAt(source, i) = "/" /\ charAt(source, i + 1) = "*"
    THEN stripCommentsFrom_lineBlocks(source, skipLineComment(source, i + 2), result)
    ELSE stripCommentsFrom_lineBlocks(source, i + 1, Append(result, charAt(source, i)))

\* The loop of stripComments from position i with result built so far.
RECURSIVE stripCommentsFrom(_, _, _)
stripCommentsFrom(source, i, result) ==
    IF ~(i < Len(source)) THEN result
    ELSE IF charAt(source, i) = "/" /\ charAt(source, i + 1) = "/"
    THEN stripCommentsFrom(source, skipLineComment(source, i), result)
    ELSE IF charAt(source, i) = "/" /\ charAt(source, i + 1) = "*"
    THEN stripCommentsFrom(source, skipBlockComment(source, i + 2) + 2, result)
    ELSE stripCommentsFrom(source, i + 1, Append(result, charAt(source, i)))

stripComments(source) == stripCommentsFrom(source, 0, <<>>)

parseValue(s0) ==
    LET s == trim(s0)
    IN  IF startsWith(s, <<"0", "x">>) \/ startsWith(s, <<"0", "X">>)
        THEN IF Len(s) <= 2 THEN Thrown("Invalid hex value") ELSE BigInt(s)
        ELSE BigInt(s)

\* toHex padding to byteCount digits, one per byte instead of two.
toHex_halfPad(value, byteCount) ==
    LET maxValue == 2 ^ (byteCount * 8) - 1
    IN  IF value < 0 THEN Thrown("Negative value not allowed")
        ELSE IF value > maxValue THEN Thrown("Value does not fit")
        ELSE Returned(padStart(toString16(value), byteCount))

toHex(value, byteCount) ==
    LET maxValue == 2 ^ (byteCount * 8) - 1
    IN  IF value < 0 THEN Thrown("Negative value not allowed")
        ELSE IF value > maxValue THEN Thrown("Value does not fit")
        ELSE Returned(padStart(toString16(value), byteCount * 2))

\* What assemble throws: the kind of message, the line number in it and, for
\* an invalid immediate, the message of the error it wraps.
AssembleError(error, line, cause) ==
    [ok |-> FALSE, error |-> error, line |-> line, cause |-> cause]

\* The loop of assemble from lineNum (counted from 0) with output so far.
RECURSIVE assembleFrom(_, _, _)
assembleFrom(lines, lineNum, output) ==
    IF ~(lineNum < Len(lines)) THEN Returned(<<"0", "x">> \o output)
    ELSE
    LET line == trim(lines[lineNum + 1])
        parts == splitWhitespace(line)
        mnemonic == toUpperCase(parts[1])
        info == getOpcodeByMnemonic(mnemonic)
        opByte == padStart(toString16(info.code), 2)
        value == parseValue(parts[2])
        hex == IF value.ok THEN toHex(value.value, info.immediateBytes) ELSE value
    IN  IF line = <<>> THEN assembleFrom(lines, lineNum + 1, output)
        ELSE IF info = undefined
        THEN AssembleError("Unknown mnemonic", lineNum + 1, "")
        ELSE IF info.immediateBytes > 0
        THEN IF Len(parts) < 2
             THEN AssembleError("requires an immediate value", lineNum + 1, "")
             ELSE IF ~hex.ok
             THEN AssembleError("Invalid immediate value", lineNum + 1, hex.error)
             ELSE assembleFrom(lines, lineNum + 1, output \o opByte \o hex.value)
        ELSE assembleFrom(lines, lineNum + 1, output \o opByte)

\* assemble taking the whole source for one line.
assemble_unsplit(source) == assembleFrom(<<stripComments(source)>>, 0, <<>>)

assemble(source) == assembleFrom(split(stripComments(source), "\n"), 0, <<>>)

\* disassembleFrom without the mark on a truncated immediate.
RECURSIVE disassembleFrom_unmarked(_, _, _)
disassembleFrom_unmarked(hex, i, lines) ==
    IF ~(i < Len(hex)) THEN lines
    ELSE
    LET opByte == parseInt16(slice(hex, i, i + 2))
        info == getOpcodeByCode(opByte)
        dataHex == slice(hex, i + 2, i + 2 + info.immediateBytes * 2)
    IN  IF info = undefined
        THEN disassembleFrom_unmarked(hex, i + 2, Append(lines,
                 <<"I", "N", "V", "A", "L", "I", "D", "(", "0", "x">>
                     \o padStart(toString16(opByte), 2) \o <<")">>))
        ELSE IF info.immediateBytes > 0
        THEN disassembleFrom_unmarked(hex, i + 2 + info.immediateBytes * 2,
                 Append(lines, info.mnemonic \o <<" ", "0", "x">> \o dataHex))
        ELSE disassembleFrom_unmarked(hex, i + 2, Append(lines, info.mnemonic))

\* The loop of disassemble from position i (counted from 0) of hex.
RECURSIVE disassembleFrom(_, _, _)
disassembleFrom(hex, i, lines) ==
    IF ~(i < Len(hex)) THEN lines
    ELSE
    LET opByte == parseInt16(slice(hex, i, i + 2))
        info == getOpcodeByCode(opByte)
        dataHex == slice(hex, i + 2, i + 2 + info.immediateBytes * 2)
    IN  IF info = undefined
        THEN disassembleFrom(hex, i + 2, Append(lines,
                 <<"I", "N", "V", "A", "L", "I", "D", "(", "0", "x">>
                     \o padStart(toString16(opByte), 2) \o <<")">>))
        ELSE IF info.immediateBytes > 0
        THEN disassembleFrom(hex, i + 2 + info.immediateBytes * 2, Append(lines,
                 info.mnemonic \o <<" ", "0", "x">> \o dataHex
                     \o (IF Len(dataHex) < info.immediateBytes * 2
                         THEN <<" ", "/", "/", " ", "t", "r", "u", "n", "c", "a", "t", "e", "d">>
                         ELSE <<>>)))
        ELSE disassembleFrom(hex, i + 2, Append(lines, info.mnemonic))

disassemble(bytecode) ==
    LET hex == toLowerCase(
                   IF startsWith(bytecode, <<"0", "x">>) \/ startsWith(bytecode, <<"0", "X">>)
                   THEN sliceFrom(bytecode, 2) ELSE bytecode)
    IN  IF Len(hex) % 2 # 0 THEN Thrown("Bytecode has odd number of hex characters")
        ELSE IF \E k \in DOMAIN hex : hex[k] \notin Range(HexDigits)
        THEN Thrown("Bytecode contains non-hex characters")
        ELSE Returned(join(disassembleFrom(hex, 0, <<>>), <<"\n">>))

(* ===================== calls of the opcode table and assembler =========== *)

\* The specification SpecAsm draws one call -- a function of the package and
\* its argument -- in its initial state, and its actions make the call and
\* record what it returned in asm.  No debug session exists in SpecAsm.

Bytes == 0..255

PUSH == <<"P", "U", "S", "H">>

\* Mnemonics looked up: every key of the table, PUSH1 .. PUSH32 by name, and
\* names the table does not have.
MnemonicInputs ==
    {opcodeTable[k].mnemonic : k \in DOMAIN opcodeTable}
        \cup {PUSH \o Decimal(k) : k \in 1..32}
        \cup {<<"B", "A", "D", "O", "P">>, <<"p", "u", "s", "h", "1">>,
              PUSH \o Decimal(33), <<>>}

CodeCalls == [op : {"call"}, fn : {"getOpcodeByCode"}, code : Bytes]

MnemonicCalls ==
    [op : {"call"}, fn : {"getOpcodeByMnemonic"}, mnemonic : MnemonicInputs]

LookupByCode ==
    /\ asm.op = "call" /\ asm.fn = "getOpcodeByCode"
    /\ asm' = [op |-> "getOpcodeByCode", code |-> asm.code,
               info |-> getOpcodeByCode(asm.code)]
    /\ UNCHANGED <<trace, flatSteps, globalStepIndex, last, eng, hook>>

LookupByMnemonic ==
    /\ asm.op = "call" /\ asm.fn = "getOpcodeByMnemonic"
    /\ asm' = [op |-> "getOpcodeByMnemonic", mnemonic |-> asm.mnemonic,
               info |-> getOpcodeByMnemonic(asm.mnemonic)]
    /\ UNCHANGED <<trace, flatSteps, globalStepIndex, last, eng, hook>>

(* ------------------------- sources given to assemble --------------------- *)

MaxImmediateBytes == 2

MaxInstrs == 2

MaxBytes == 3

\* Two hex digits of a byte, high nibble first.
ByteHex(b) == <<HexDigits[(b \div 16) + 1], HexDigits[(b % 16) + 1]>>

\* The n bytes of v, most significant first, two hex digits each.
RECURSIVE BigEndian(_, _)
BigEndian(v, n) ==
    IF n = 0 THEN <<>>
    ELSE ByteHex((v \div (256 ^ (n - 1))) % 256) \o BigEndian(v % (256 ^ (n - 1)), n - 1)

\* Operand values around the limits of an n-byte immediate.
OperandValues(n) == {-1, 0, 10, 255, 256, 2 ^ (8 * n) - 1, 2 ^ (8 * n)}

OperandStyles == {"decimal", "hex", "zeros", "HEX"}

\* An operand value as written in the source: decimal, hex with the fewest
\* digits, hex with more leading zeros than the immediate has digits, or
\* upper-case hex.
Operand(v, style, n) ==
    IF style = "decimal"
    THEN (IF v < 0 THEN <<"-">> ELSE <<>>) \o Decimal(IF v < 0 THEN -v ELSE v)
    ELSE IF style = "hex" THEN <<"0", "x">> \o toString16(v)
    ELSE IF style = "zeros"
    THEN <<"0", "x">> \o padStart(toString16(v), 2 * n + 1)
    ELSE <<"0", "X">> \o toUpperCase(toString16(v))

OperandCall(n, v, style) ==
    [op |-> "call", fn |-> "assemble",
     source |-> PUSH \o Decimal(n) \o <<" ">> \o Operand(v, style, n),
     about |-> [kind |-> "operand", n |-> n, v |-> v, style |-> style]]

\* assemble("PUSHn <operand>"); a negative value has no hex spelling.
OperandCalls ==
    UNION {UNION {{OperandCall(n, v, style) :
                      style \in IF v < 0 THEN {"decimal"} ELSE OperandStyles} :
                  v \in OperandValues(n)} :
           n \in 1..MaxImmediateBytes}

\* An instruction of a source: its mnemonic, the immediate size of the
\* mnemonic, the hex digits of its immediate, and the fault assemble is to
\* find in it.
Instr(mnemonic, n, digits, fault) ==
    [mnemonic |-> mnemonic, n |-> n, digits |-> digits, fault |-> fault]

InstrText(instr) ==
    instr.mnemonic
        \o (IF instr.digits = <<>> /\ instr.fault # "Invalid immediate value"
            THEN <<>> ELSE <<" ", "0", "x">> \o instr.digits)

RECURSIVE ProgramText(_)
ProgramText(prog) ==
    IF prog = <<>> THEN <<>>
    ELSE IF Len(prog) = 1 THEN InstrText(prog[1])
    ELSE InstrText(prog[1]) \o <<"\n">> \o ProgramText(Tail(prog))

Programs(instrs) == UNION {[1..len -> instrs] : len \in 0..MaxInstrs}

\* Lowercase hex digits of an immediate: a0a0.. and 0f0f.., the second with a
\* leading zero.
DigitPatterns(len) ==
    {[k \in 1..len |-> IF k % 2 = 1 THEN "a" ELSE "0"],
     [k \in 1..len |-> IF k % 2 = 1 THEN "0" ELSE "f"]}

\* Canonical instructions: an upper-case mnemonic alone, or PUSHn, one space
\* and a 0x-prefixed lowercase immediate that fits n bytes, written with one
\* digit, with all 2n digits or with one digit less.
CanonicalInstrs ==
    {Instr(m, 0, <<>>, "none") :
        m \in {<<"S", "T", "O", "P">>, <<"A", "D", "D">>, PUSH \o <<"0">>}}
    \cup UNION {{Instr(PUSH \o Decimal(n), n, digits, "none") :
                    digits \in UNION {DigitPatterns(len) : len \in {1, 2 * n - 1, 2 * n}}} :
                n \in 1..MaxImmediateBytes}

CanonicalCalls ==
    {[op |-> "call", fn |-> "assemble", source |-> ProgramText(prog),
      about |-> [kind |-> "canonical", prog |-> prog]] :
        prog \in Programs(CanonicalInstrs)}

(* ---------------------- sources with comments added ---------------------- *)

\* Instructions of the sources that get comments: two that assemble and one
\* for each way an instruction can fail.
CommentedInstrs ==
    {Instr(<<"S", "T", "O", "P">>, 0, <<>>, "none"),
     Instr(PUSH \o <<"1">>, 1, <<"0", "a">>, "none"),
     Instr(<<"B", "A", "D", "O", "P">>, 0, <<>>, "Unknown mnemonic"),
     Instr(PUSH \o <<"1">>, 1, <<>>, "requires an immediate value"),
     Instr(PUSH \o <<"1">>, 1, <<>>, "Invalid immediate value")}

\* The last one follows a block comment on the same line.
LineComments ==
    {<<"/", "/", " ", "c">>,
     <<" ", "/", "/", "/", "*">>,
     <<" ", "/", "*", "c", "*", "/", " ", "/", "/", "*", "/">>}

BlockComments ==
    {<<"/", "*", " ", "c", " ", "*", "/">>,
     <<"/", "*", "*", "/">>,
     <<"/", "*", "\n", "*", "/">>,
     <<"/", "*", " ", "a", "\n", "/", "/", " ", "b", "\n", " ", "*", "/">>}

\* Lines of their own: a comment and its line break, or an empty or
\* whitespace-only line.
OwnLines ==
    {<<"/", "/", " ", "c", "\n">>,
     <<"/", "*", " ", "c", " ", "*", "/", "\n">>,
     <<"/", "*", " ", "a", "\n", "b", " ", "*", "/", "\n">>,
     <<"/", "/", "/", "*", "\n", "/", "*", "/", "/", "\n", "*", "/", "\n">>,
     <<"\n">>,
     <<" ", "\t", "\n">>}

\* Places of a source, as the number of characters before them.
AtLineStart(base, at) == at = 0 \/ (at > 0 /\ base[at] = "\n")

AtLineEnd(base, at) == at = Len(base) \/ (at < Len(base) /\ base[at + 1] = "\n")

BetweenTokens(base, at) ==
    \/ AtLineStart(base, at)
    \/ AtLineEnd(base, at)
    \/ base[at] \in Whitespace
    \/ base[at + 1] \in Whitespace

\* What may be added to a source: a line comment appended to a line, a block
\* comment between two tokens, or a line of its own before a line.
Additions(base) ==
    {[at |-> at, text |-> text] :
        <<at, text>> \in
            {x \in (0..Len(base)) \X (LineComments \cup BlockComments \cup OwnLines) :
                \/ x[2] \in LineComments /\ AtLineEnd(base, x[1])
                \/ x[2] \in BlockComments /\ BetweenTokens(base, x[1])
                \/ x[2] \in OwnLines /\ AtLineStart(base, x[1])}}

Insert(base, addition) ==
    SubSeq(base, 1, addition.at) \o addition.text
        \o SubSeq(base, addition.at + 1, Len(base))

\* Nothing added, or one addition.
AdditionLists(base) == {<<>>} \cup {<<a>> : a \in Additions(base)}

RECURSIVE InsertAll(_, _)
InsertAll(base, additions) ==
    IF additions = <<>> THEN base
    ELSE Insert(InsertAll(base, Tail(additions)), Head(additions))

CommentedCalls ==
    UNION {{[op |-> "call", fn |-> "assemble",
             source |-> InsertAll(ProgramText(prog), additions),
             about |-> [kind |-> "commented", prog |-> prog, additions |-> additions]] :
               additions \in AdditionLists(ProgramText(prog))} :
           prog \in Programs(CommentedInstrs) \ {<<>>}}

(* ------------------------ bytecode given to disassemble ------------------ *)

\* Bytes of the bytecode: STOP, a byte with no table entry, and the PUSHn
\* that take an immediate of up to MaxImmediateBytes bytes.
ByteInputs == {0, 12} \cup {95 + n : n \in 1..MaxImmediateBytes}

ByteSeqs == UNION {[1..len -> ByteInputs] : len \in 0..MaxBytes}

RECURSIVE BytesHex(_)
BytesHex(bytes) ==
    IF bytes = <<>> THEN <<>> ELSE ByteHex(Head(bytes)) \o BytesHex(Tail(bytes))

\* The ways the bytes are written: with prefix 0x or 0X or without, in lower
\* or upper case.
BytecodeStyles == {<<"0", "x">>, <<"0", "X">>, <<>>} \X {"lower", "upper"}

Bytecode(bytes, style) ==
    style[1] \o (IF style[2] = "upper" THEN toUpperCase(BytesHex(bytes))
                 ELSE BytesHex(bytes))

\* Every byte value on its own, so that each entry of the table is met.
TableByteSeqs == {<<b>> : b \in Bytes}

BytecodeCalls ==
    {[op |-> "call", fn |-> "disassemble", bytecode |-> Bytecode(x[1], x[2]),
      about |-> [kind |-> "bytes", bytes |-> x[1]]] :
        x \in (ByteSeqs \cup TableByteSeqs) \X BytecodeStyles}

AssembleCalls == OperandCalls \cup CanonicalCalls \cup CommentedCalls

\* assemble(source), of a source given or of the one disassemble returned for
\* a bytecode given.
Assemble ==
    /\ \/ asm.op = "call" /\ asm.fn = "assemble"
          /\ asm' = [op |-> "assemble", source |-> asm.source, about |-> asm.about,
                     result |-> assemble(asm.source)]
       \/ asm.op = "disassemble" /\ asm.about.kind = "bytes" /\ asm.result.ok
          /\ asm' = [op |-> "assemble", source |-> asm.result.value,
                     about |-> [kind |-> "disassembled", bytecode |-> asm.bytecode,
                                of |-> asm.about],
                     result |-> assemble(asm.result.value)]
    /\ UNCHANGED <<trace, flatSteps, globalStepIndex, last, eng, hook>>

\* disassemble(bytecode), of a bytecode given or of the one assemble returned.
Disassemble ==
    /\ \/ asm.op = "call" /\ asm.fn = "disassemble"
          /\ asm' = [op |-> "disassemble", bytecode |-> asm.bytecode,
                     about |-> asm.about, result |-> disassemble(asm.bytecode)]
       \/ asm.op = "assemble" /\ asm.result.ok
          /\ asm' = [op |-> "disassemble", bytecode |-> asm.result.value,
                     about |-> [kind |-> "assembled", source |-> asm.source,
                                of |-> asm.about],
                     result |-> disassemble(asm.result.value)]
    /\ UNCHANGED <<trace, flatSteps, globalStepIndex, last, eng, hook>>

AsmCalls == CodeCalls \cup MnemonicCalls \cup AssembleCalls \cup BytecodeCalls

InitAsm ==
    /\ asm \in AsmCalls
    /\ trace = <<>>
    /\ flatSteps = <<>>
    /\ globalStepIndex = 0
    /\ last = Idle
    /\ eng = Idle
    /\ hook = Idle

NextAsm ==
    \/ LookupByCode
    \/ LookupByMnemonic
    \/ Assemble
    \/ Disassemble

SpecAsm == InitAsm /\ [][NextAsm]_vars

(* ================================ engine ================================= *)

MaxCodeBytes == 2

\* Largest number of messages below the root that one run dispatches.
MaxMessages == 2

OP_STOP == 0
OP_SSTORE == 85
OP_RETURN == 243
OP_REVERT == 253
OP_INVALID == 254
OP_SELFDESTRUCT == 255

DEFAULT_CALLER == "0xd8da6bf26964af9d7eed9e03e53415d37aa96045"

DEFAULT_TO == "0x1000000000000000000000000000000000000001"

\* TERMINAL_OPCODES without INVALID.
TERMINAL_OPCODES_noInvalid == {0, 243, 253, 255}

\* STOP, RETURN, REVERT, INVALID, SELFDESTRUCT.
TERMINAL_OPCODES == {0, 243, 253, 254, 255}

ensureTerminalOpcode(bytecode) ==
    LET hex == IF startsWith(bytecode, <<"0", "x">>) THEN sliceFrom(bytecode, 2)
               ELSE bytecode
        lastByte == parseInt16(SubSeq(hex, Len(hex) - 1, Len(hex)))
    IN  IF Len(hex) < 2
        THEN [bytecode |-> bytecode \o <<"0", "0">>, appendedStop |-> TRUE]
        ELSE IF lastByte \in TERMINAL_OPCODES
        THEN [bytecode |-> bytecode, appendedStop |-> FALSE]
        ELSE [bytecode |-> bytecode \o <<"0", "0">>, appendedStop |-> TRUE]

\* s.includes(part).
includes(s, part) ==
    \E i \in 0..(Len(s) - Len(part)) : SubSeq(s, i + 1, i + Len(part)) = part

\* The texts mapExceptionToReason searches a message for, in the order of its
\* tests, each with the exit reason it stands for.
SearchedTexts ==
    <<[text |-> <<"r", "e", "v", "e", "r", "t">>, reason |-> "revert"],
      [text |-> <<"o", "u", "t", " ", "o", "f", " ", "g", "a", "s">>,
       reason |-> "outOfGas"],
      [text |-> <<"s", "t", "a", "c", "k", " ", "u", "n", "d", "e", "r", "f", "l", "o",
                  "w">>,
       reason |-> "stackUnderflow"],
      [text |-> <<"s", "t", "a", "c", "k", " ", "o", "v", "e", "r", "f", "l", "o", "w">>,
       reason |-> "stackOverflow"],
      [text |-> <<"i", "n", "v", "a", "l", "i", "d", " ", "j", "u", "m", "p">>,
       reason |-> "invalidJump"],
      [text |-> <<"s", "t", "a", "t", "i", "c">>, reason |-> "writeProtection"]>>

\* The reason of the last searched text that the message contains.
RECURSIVE firstReason_last(_, _, _)
firstReason_last(msg, k, otherwise) ==
    IF k > Len(SearchedTexts) THEN otherwise
    ELSE LET later == firstReason_last(msg, k + 1, otherwise)
         IN  IF later # otherwise THEN later
             ELSE IF includes(msg, SearchedTexts[k].text) THEN SearchedTexts[k].reason
             ELSE otherwise

\* The reason of the first searched text, from the k-th on, that the message
\* contains, and `otherwise` when it contains none.
RECURSIVE firstReason(_, _, _)
firstReason(msg, k, otherwise) ==
    IF k > Len(SearchedTexts) THEN otherwise
    ELSE IF includes(msg, SearchedTexts[k].text) THEN SearchedTexts[k].reason
    ELSE firstReason(msg, k + 1, otherwise)

\* mapExceptionToReason returning "success" for a message it does not know.
mapExceptionToReason_unknownSucceeds(exceptionError) ==
    firstReason(toLowerCase(exceptionError.error), 1, "success")

\* The exit reason of an exception, by the first of the searched texts that
\* its lower-cased message contains; "invalid" when it contains none.
\* The value thrown is a record with the properties it has among error and
\* message, and with `string`, the text String() makes of it.
mapExceptionToReason(exceptionError) ==
    LET msg == IF "error" \in DOMAIN exceptionError THEN exceptionError.error
               ELSE IF "message" \in DOMAIN exceptionError THEN exceptionError.message
               ELSE exceptionError.string
    IN  firstReason(toLowerCase(msg), 1, "invalid")

\* hexToBytes of a 0x-prefixed string of whole bytes.
RECURSIVE hexToBytesFrom(_)
hexToBytesFrom(hex) ==
    IF Len(hex) < 2 THEN <<>>
    ELSE <<parseInt16(SubSeq(hex, 1, 2))>> \o hexToBytesFrom(sliceFrom(hex, 2))

hexToBytes(hex) == hexToBytesFrom(sliceFrom(hex, 2))

\* bytesToHex: 0x and two digits a byte.
bytesToHex(bytes) == <<"0", "x">> \o BytesHex(bytes)

\* array.reverse().
RECURSIVE reverse(_)
reverse(array) ==
    IF array = <<>> THEN <<>> ELSE Append(reverse(Tail(array)), Head(array))

\* array.slice(start).
sliceArray(array, start) == SubSeq(array, start + 1, Len(array))

\* array.pop(): the array without its last element.
popped(array) == SubSeq(array, 1, Len(array) - 1)

\* The last element of a non-empty array.
lastOf(array) == array[Len(array)]

\* The object with the property set.
setProperty(object, key, value) ==
    [k \in DOMAIN object \cup {key} |-> IF k = key THEN value ELSE object[k]]

\* The call of execute a record of the model belongs to.
Executions == {"a", "b"}

ZERO_ADDRESS == "0x0000000000000000000000000000000000000000"

\* Whether the object has the property: an absent property reads undefined.
has(object, key) == key \in DOMAIN object

\* stateManager.getStorage: the bytes stored, none for a slot never written.
getStorage(stateManager, address, slot) ==
    IF <<address, slot>> \in DOMAIN stateManager THEN stateManager[<<address, slot>>]
    ELSE <<>>

\* A new frame, as beforeMessageHandler and the call mode of execute make it.
Frame(id, type, codeAddress) ==
    [id |-> id, type |-> type, codeAddress |-> codeAddress,
     steps |-> <<>>, children |-> <<>>, result |-> [exitReason |-> "success"]]

\* The frame at the bottom of the frame stack.
top_bottom(x) == x.frameStack[1]

\* The frame on top of the frame stack; frames are identified by their
\* position in x.frames.
top(x) == lastOf(x.frameStack)

\* The accumulated storage kept per frame type.
storageKey_type(frame) == frame.type

\* The key under which frameStorageMap keeps the accumulated storage of a
\* frame: the frame's id.
storageKey(frame) == frame.id

\* The previous step that gets the state after: the root frame's.
prevStepFrame_root(x) == x.rootFrame

\* The frame whose previous step a step event gives stackAfter and
\* memoryAfter: currentFrame, the frame the step is appended to.
prevStepFrame(x) == top(x)

\* stepHandler: the step goes to the frame on top of the frame stack, and to
\* none when the stack is empty.  The previous step of that frame gets
\* stackAfter and memoryAfter, the step gets the storage accumulated by the
\* frame so far, and an SSTORE with its two operands on the stack is recorded
\* as a storage change and added to the accumulated storage.
stepHandler(x, data, stateManager) ==
    IF x.frameStack = <<>> THEN x
    ELSE
    LET currentFrame == x.frames[top(x)]
        stack == [i \in DOMAIN data.stack |->
                     <<"0", "x">> \o toString16(reverse(data.stack)[i])]
        memHex == IF Len(data.memory) > 0 THEN bytesToHex(data.memory) ELSE <<"0", "x">>
        frameStorage == IF has(x.frameStorageMap, storageKey(currentFrame))
                        THEN x.frameStorageMap[storageKey(currentFrame)] ELSE <<>>
        storage == IF DOMAIN frameStorage # {} THEN frameStorage ELSE undefined
        isStore == data.opcode = OP_SSTORE /\ Len(stack) >= 2
        slot == stack[1]
        newValue == stack[2]
        currentValue == getStorage(stateManager, currentFrame.codeAddress, slot)
        before == IF Len(currentValue) > 0 THEN bytesToHex(currentValue)
                  ELSE <<"0", "x", "0">>
        storageChanges == IF isStore
                          THEN <<[slot |-> slot, before |-> before, after |-> newValue]>>
                          ELSE <<>>
        step == [pc |-> data.pc, opcode |-> data.opcode,
                 mnemonic |-> getOpcodeByCode(data.opcode).mnemonic,
                 stack |-> stack, memory |-> [current |-> memHex],
                 storageChanges |-> storageChanges, storage |-> storage,
                 by |-> data.by]
    IN  [x EXCEPT
           !.frames[prevStepFrame(x)].steps =
               IF Len(@) > 0
               THEN [@ EXCEPT ![Len(@)] =
                        setProperty(setProperty(@, "stackAfter", stack),
                                    "memoryAfter", memHex)]
               ELSE @,
           !.frames[top(x)].steps = Append(@, step),
           !.frameStorageMap =
               setProperty(@, storageKey(currentFrame),
                           IF isStore THEN setProperty(frameStorage, slot, newValue)
                           ELSE frameStorage)]

\* Every frame below the root typed CALL.
frameTypeOf_call(parentFrame) == "CALL"

\* The type of a frame below the root, by the mnemonic of the last step of its
\* parent.
frameTypeOf(parentFrame) ==
    IF Len(parentFrame.steps) > 0
    THEN LET opcode == lastOf(parentFrame.steps).mnemonic
         IN  IF opcode = <<"C", "R", "E", "A", "T", "E">> THEN "CREATE"
             ELSE IF opcode = <<"C", "R", "E", "A", "T", "E", "2">> THEN "CREATE2"
             ELSE IF opcode = <<"S", "T", "A", "T", "I", "C", "C", "A", "L", "L">>
             THEN "STATICCALL"
             ELSE IF opcode = <<"D", "E", "L", "E", "G", "A", "T", "E", "C", "A", "L", "L">>
             THEN "DELEGATECALL"
             ELSE IF opcode = <<"C", "A", "L", "L", "C", "O", "D", "E">> THEN "CALLCODE"
             ELSE "CALL"
    ELSE "CALL"

\* The index of the step after the parent's last step.
stepIndexOf_next(parentFrame) == Len(parentFrame.steps)

\* The index a child is attached at: that of the parent's last step.
stepIndexOf(parentFrame) == Max(0, Len(parentFrame.steps) - 1)

\* beforeMessageHandler: a new frame, the root when the frame stack is empty
\* and otherwise a child of the frame on top, attached at that frame's last
\* step; the new frame is pushed on the frame stack.
beforeMessageHandler(x, data) ==
    LET isRoot == x.frameStack = <<>>
        newFrame == IF isRoot
                    THEN Frame(<<"r", "o", "o", "t">>, "ROOT", data.to)
                    ELSE Frame(<<"f", "r", "a", "m", "e", "-">> \o Decimal(x.frameIdCounter),
                               frameTypeOf(x.frames[top(x)]), data.to)
        ref == Len(x.frames) + 1
        attached == IF isRoot THEN x.frames
                    ELSE [x.frames EXCEPT ![top(x)].children =
                             Append(@, [frame |-> ref,
                                        stepIndex |-> stepIndexOf(x.frames[top(x)])])]
    IN  [x EXCEPT !.frameIdCounter = IF isRoot THEN @ ELSE @ + 1,
                  !.rootFrame = IF isRoot THEN ref ELSE @,
                  !.frames = Append(attached, newFrame),
                  !.frameStack = Append(@, ref)]

\* The stack a frame's last opcode leaves: RETURN and REVERT take two operands,
\* SELFDESTRUCT one, and any other opcode is taken to leave the stack as it was.
stackAfterExit(lastStep) ==
    IF lastStep.opcode \in {OP_RETURN, OP_REVERT} THEN sliceArray(lastStep.stack, 2)
    ELSE IF lastStep.opcode = OP_SELFDESTRUCT THEN sliceArray(lastStep.stack, 1)
    ELSE lastStep.stack

\* afterMessageHandler: the frame on top of the frame stack is popped and gets
\* its result, and its last step gets the stackAfter and memoryAfter that no
\* later step of the frame gave it.  Nothing happens on an empty frame stack.
afterMessageHandler(x, result) ==
    IF x.frameStack = <<>> THEN x
    ELSE
    LET finishedFrame == x.frames[top(x)]
        exitReason == IF has(result.execResult, "exceptionError")
                      THEN mapExceptionToReason(result.execResult.exceptionError)
                      ELSE "success"
        codeAddress == IF finishedFrame.type \in {"CREATE", "CREATE2", "ROOT"}
                          /\ has(result, "createdAddress")
                       THEN result.createdAddress ELSE finishedFrame.codeAddress
        lastStep == lastOf(finishedFrame.steps)
        withStack == IF has(lastStep, "stackAfter") THEN lastStep
                     ELSE setProperty(lastStep, "stackAfter", stackAfterExit(lastStep))
        withMemory == IF has(withStack, "memoryAfter") THEN withStack
                      ELSE setProperty(withStack, "memoryAfter", lastStep.memory.current)
        steps == IF Len(finishedFrame.steps) > 0
                 THEN [finishedFrame.steps EXCEPT ![Len(finishedFrame.steps)] = withMemory]
                 ELSE finishedFrame.steps
    IN  [x EXCEPT !.frameStack = popped(@),
                  !.frames[top(x)] =
                      [finishedFrame EXCEPT !.result = [exitReason |-> exitReason],
                                            !.codeAddress = codeAddress,
                                            !.steps = steps]]

\* The opcodes at which the interpreter ends a frame: STOP, RETURN, REVERT,
\* INVALID and SELFDESTRUCT.
HaltingOpcodes == {0, 243, 253, 254, 255}

\* Bytes of the bytecode executed: the halting opcodes, ADD, PUSH0 and PUSH1.
CodeInputs == HaltingOpcodes \cup {1, 95, 96}

CodeSeqs == UNION {[1..len -> CodeInputs] : len \in 0..MaxCodeBytes}

\* The bytecodes that store and call: one or two opcodes, each SSTORE or CALL.
StoreAndCallSeqs == [1..1 -> {85, 241}] \cup [1..2 -> {85, 241}]

\* The bytecodes of one opcode that creates a frame other than by CALL.
CreatingSeqs == [1..1 -> FRAME_CREATING_OPCODES \ {OP_CALL}]

\* params.bytecode and params.mode; the bytecode is 0x-prefixed, and the
\* bytecodes that neither store nor call are given in lower and in upper case.
ExecutionParams ==
    {[mode |-> mode, bytes |-> bytes,
      bytecode |-> <<"0", "x">> \o (IF case = "upper" THEN toUpperCase(BytesHex(bytes))
                                    ELSE BytesHex(bytes))] :
        <<mode, bytes, case>> \in {"call", "deploy"} \X CodeSeqs \X {"lower", "upper"}}
    \cup {[mode |-> mode, bytes |-> bytes, bytecode |-> <<"0", "x">> \o BytesHex(bytes)] :
             <<mode, bytes>> \in {"call", "deploy"} \X (StoreAndCallSeqs \cup CreatingSeqs)}

\* The code of a called account, which is not part of the input of execute:
\* none, or one opcode.
CalleeCodes == {<<>>, <<OP_SSTORE>>, <<OP_CALL>>, <<OP_REVERT>>}

\* The account a message below the root is sent to, the account runCall
\* creates in deploy mode, and the account a CREATE or CREATE2 creates.
CALLEE == "0x2000000000000000000000000000000000000002"

CREATED == "0x3000000000000000000000000000000000000003"

CREATED_BY_OPCODE == "0x4000000000000000000000000000000000000004"

\* The stack and memory the interpreter reports with a step: nothing on
\* either; at an opcode that takes operands off the stack as its frame ends,
\* also a stack of two words and a byte of memory; at an SSTORE, also a stack
\* of a value and, on top, a slot.
MachineStates(opcode) ==
    {[stack |-> <<>>, memory |-> <<>>]}
    \cup (IF opcode = OP_SSTORE
          THEN {[stack |-> <<value, slot>>, memory |-> <<>>] :
                    <<value, slot>> \in {<<1, 0>>, <<2, 0>>, <<1, 1>>}}
          ELSE IF opcode \in {OP_RETURN, OP_REVERT, OP_SELFDESTRUCT}
          THEN {[stack |-> <<1, 2>>, memory |-> <<1>>]}
          ELSE {})

\* The exception an opcode can end its frame with.
ExceptionOf(opcode) ==
    IF opcode = OP_REVERT THEN [error |-> <<"r", "e", "v", "e", "r", "t">>]
    ELSE IF opcode = OP_INVALID
    THEN [error |-> <<"i", "n", "v", "a", "l", "i", "d", " ", "o", "p", "c", "o", "d", "e">>]
    ELSE [error |-> <<"o", "u", "t", " ", "o", "f", " ", "g", "a", "s">>]

\* An interpreter newly created: no listener, empty world state.
NewEvm == [events |-> {}, stateManager |-> <<>>, nonce |-> 0]

\* The engine after construction: no interpreter, no call of execute yet.
\* A call of execute records the world state it found (`world`), the calls
\* that had finished when it was made (`finished`) and, when it finishes,
\* the world state it leaves (`after`).  Interpreters are identified by the order of their creation, 0 standing for
\* the null of evmPromise; `created` counts the interpreters created since
\* construction or the latest resetState, and `resets` the calls of resetState
\* that discarded an interpreter.
NewEngine ==
    [evmPromise |-> 0, evms |-> <<>>, created |-> 0, resets |-> 0,
     x |-> [e \in Executions |-> Idle]]

\* getEvm creating an interpreter at every call.
getEvm_uncached ==
    [eng EXCEPT !.evmPromise = Len(eng.evms) + 1, !.evms = Append(@, NewEvm),
                !.created = @ + 1]

\* getEvm: the interpreter of the engine, created when there is none.
getEvm ==
    IF eng.evmPromise = 0
    THEN [eng EXCEPT !.evmPromise = Len(eng.evms) + 1, !.evms = Append(@, NewEvm),
                     !.created = @ + 1]
    ELSE eng

\* The world state of an interpreter.
worldOf(evm) == [stateManager |-> evm.stateManager, nonce |-> evm.nonce]

\* execute is called and reaches `await this.getEvm()`.
ExecuteWith(e, params) ==
    /\ eng.x[e] = Idle
    /\ eng' = [getEvm EXCEPT
                 !.x[e] = [op |-> "getEvm", evm |-> getEvm.evmPromise,
                           resets |-> eng.resets,
                           finished |-> {f \in Executions :
                                            eng.x[f].op \in {"returned", "threw"}},
                           world |-> worldOf(getEvm.evms[getEvm.evmPromise]),
                           mode |-> params.mode, bytes |-> params.bytes,
                           bytecode |-> params.bytecode]]
    /\ UNCHANGED <<trace, flatSteps, globalStepIndex, last, asm, hook>>

Execute == \E params \in ExecutionParams : ExecuteWith("a", params)

\* execute from the registration of its handlers up to the call of the
\* interpreter: the frame stack and root frame are set up (in call mode the
\* root frame is made here and pushed), the bytecode gets its terminal
\* opcode, and runCode or runCall starts.
Run(e) ==
    /\ eng.x[e].op = "getEvm"
    /\ LET x == eng.x[e]
           ensured == ensureTerminalOpcode(x.bytecode)
           deploy == x.mode = "deploy"
       IN  eng' = [eng EXCEPT
                     !.evms[x.evm].events = @ \cup {e},
                     !.x[e] =
                        [op |-> "execute", evm |-> x.evm,
                         mode |-> x.mode, bytes |-> x.bytes, bytecode |-> x.bytecode,
                         execBytecode |-> ensured.bytecode,
                         appendedStop |-> ensured.appendedStop,
                         resets |-> x.resets, finished |-> x.finished,
                         world |-> x.world,
                         code |-> hexToBytes(ensured.bytecode),
                         run |-> IF deploy THEN "runCall" ELSE "loop",
                         pc |-> 0, depth |-> 0, messages |-> 0, callees |-> <<>>,
                         checkpoints |-> <<>>,
                         execResult |-> [returnValue |-> <<>>],
                         frameIdCounter |-> 0,
                         frameStack |-> IF deploy THEN <<>> ELSE <<Root>>,
                         rootFrame |-> IF deploy THEN 0 ELSE Root,
                         frames |-> IF deploy THEN <<>>
                                    ELSE <<Frame(<<"r", "o", "o", "t">>, "ROOT", DEFAULT_TO)>>,
                         frameStorageMap |-> <<>>]]
    /\ UNCHANGED <<trace, flatSteps, globalStepIndex, last, asm, hook>>

\* An event of the interpreter goes to the handlers of every execution
\* registered on it.
Deliver(evm, event, data) ==
    [e \in Executions |->
        IF e \in eng.evms[evm].events
        THEN CASE event = "beforeMessage" -> beforeMessageHandler(eng.x[e], data)
               [] event = "step" ->
                     stepHandler(eng.x[e], data, eng.evms[evm].stateManager)
               [] event = "afterMessage" -> afterMessageHandler(eng.x[e], data)
        ELSE eng.x[e]]

\* The interpreter of execution e ends the frame it is in, xs being the
\* executions after the handlers of the opcode's step event ran.  A frame
\* that runCall or a call opcode started ends with afterMessage, and what it
\* wrote is undone when it ends with an exception; the code of runCode just
\* returns.
Halt(e, xs, execResult) ==
    LET x == xs[e]
        ofMessage == x.depth > 0 \/ x.mode = "deploy"
    IN  [eng EXCEPT
           !.x = [xs EXCEPT ![e] = [x EXCEPT !.run = IF ofMessage THEN "after"
                                                    ELSE "returned",
                                             !.execResult = execResult,
                                             !.checkpoints = IF ofMessage THEN popped(@)
                                                             ELSE @]],
           !.evms[x.evm].stateManager =
               IF ofMessage /\ has(execResult, "exceptionError")
               THEN lastOf(x.checkpoints) ELSE @]

Succeeded == [returnValue |-> <<>>]

Failed(exceptionError) == [returnValue |-> <<>>, exceptionError |-> exceptionError]

\* The code execution e is running, and the program counter in it.
codeOf(x) == IF x.depth > 0 THEN lastOf(x.callees).code ELSE x.code

pcOf(x) == IF x.depth > 0 THEN lastOf(x.callees).pc ELSE x.pc

\* The account whose code execution e is running.
addressOf(x) ==
    IF x.depth > 0 THEN lastOf(x.callees).address
    ELSE IF x.mode = "deploy" THEN CREATED ELSE DEFAULT_TO

\* The interpreter fires beforeMessage: for the message of runCall, whose
\* caller's nonce it has incremented, or for the message of a call opcode.
\* What the world state was is kept for the case that the frame fails.
BeforeMessage(e) ==
    /\ eng.x[e].op = "execute" /\ eng.x[e].run \in {"runCall", "message"}
    /\ LET x == eng.x[e]
           ofRunCall == x.run = "runCall"
           spawning == IF ofRunCall THEN OP_CREATE ELSE codeOf(x)[pcOf(x)]
           creating == spawning \in {OP_CREATE, OP_CREATE2}
           address == IF creating THEN CREATED_BY_OPCODE
                      ELSE IF spawning \in {OP_DELEGATECALL, OP_CALLCODE} THEN addressOf(x)
                      ELSE CALLEE
           data == [to |-> IF creating THEN ZERO_ADDRESS ELSE address]
           xs == Deliver(x.evm, "beforeMessage", data)
       IN  \E code \in IF ofRunCall THEN {x.code} ELSE CalleeCodes :
              eng' = [eng EXCEPT
                        !.x = [xs EXCEPT ![e] =
                                 [@ EXCEPT !.run = "loop",
                                           !.depth = IF ofRunCall THEN 0 ELSE @ + 1,
                                           !.callees = IF ofRunCall THEN @
                                                       ELSE Append(@, [code |-> code,
                                                                       pc |-> 0,
                                                                       address |-> address,
                                                                       created |-> creating]),
                                           !.checkpoints =
                                               Append(@, eng.evms[x.evm].stateManager)]],
                        !.evms[x.evm].nonce = IF ofRunCall THEN @ + 1 ELSE @]
    /\ UNCHANGED <<trace, flatSteps, globalStepIndex, last, asm, hook>>

\* The interpreter is at an opcode, of the bytecode in the root frame and of
\* the called account's code below it, fires the step event and runs the opcode: a
\* halting opcode ends the frame (REVERT and INVALID with an exception, RETURN
\* and SELFDESTRUCT with or without), a frame-creating opcode may dispatch a
\* message, an SSTORE
\* with its operands writes the slot, and any opcode may end the frame with an
\* exception; otherwise the program counter moves past the immediate bytes.
Step(e) ==
    /\ eng.x[e].op = "execute" /\ eng.x[e].run = "loop"
    /\ LET x == eng.x[e]
       IN  /\ pcOf(x) < Len(codeOf(x))
           /\ LET opcode == codeOf(x)[pcOf(x) + 1] IN
              \E machine \in MachineStates(opcode) :
                LET data == [opcode |-> opcode, pc |-> pcOf(x),
                             stack |-> machine.stack, memory |-> machine.memory,
                             by |-> e]
                    xs == Deliver(x.evm, "step", data)
                    next == pcOf(x) + 1 + getOpcodeByCode(opcode).immediateBytes
                    ran == [xs EXCEPT ![e] =
                              IF x.depth = 0 THEN [@ EXCEPT !.pc = next]
                              ELSE [@ EXCEPT !.callees[x.depth].pc = next]]
                    written == IF opcode = OP_SSTORE /\ Len(machine.stack) >= 2
                               THEN setProperty(eng.evms[x.evm].stateManager,
                                                <<addressOf(x),
                                                  <<"0", "x">> \o toString16(machine.stack[2])>>,
                                                <<machine.stack[1]>>)
                               ELSE eng.evms[x.evm].stateManager
                IN  \/ /\ opcode \in HaltingOpcodes
                       /\ \E failed \in BOOLEAN :
                             /\ opcode = OP_STOP => ~failed
                             /\ opcode \in {OP_REVERT, OP_INVALID} => failed
                             /\ eng' = Halt(e, xs, IF failed THEN Failed(ExceptionOf(opcode))
                                                   ELSE Succeeded)
                    \/ /\ opcode \notin HaltingOpcodes
                       /\ \/ eng' = [eng EXCEPT !.x = ran,
                                                !.evms[x.evm].stateManager = written]
                          \/ /\ opcode \in FRAME_CREATING_OPCODES
                             /\ x.messages < MaxMessages
                             /\ eng' = [eng EXCEPT
                                          !.x = [ran EXCEPT ![e].run = "message",
                                                            ![e].messages = @ + 1]]
                          \/ eng' = Halt(e, xs, Failed(ExceptionOf(opcode)))
    /\ UNCHANGED <<trace, flatSteps, globalStepIndex, last, asm, hook>>

\* The opcodes whose gas depends on their operands.
DynamicGasOpcodes == {OP_SSTORE, OP_CALL, OP_RETURN, OP_REVERT, OP_SELFDESTRUCT}

\* The interpreter is at an opcode whose gas depends on its operands and
\* fails computing the gas, before the step event: the frame ends with an
\* exception and the opcode leaves no step.
Trap(e) ==
    /\ eng.x[e].op = "execute" /\ eng.x[e].run = "loop"
    /\ LET x == eng.x[e]
       IN  /\ pcOf(x) < Len(codeOf(x))
           /\ codeOf(x)[pcOf(x) + 1] \in DynamicGasOpcodes
           /\ eng' = Halt(e, eng.x, Failed([error |-> <<"s", "t", "a", "c", "k", " ",
                                                        "u", "n", "d", "e", "r", "f",
                                                        "l", "o", "w">>]))
    /\ UNCHANGED <<trace, flatSteps, globalStepIndex, last, asm, hook>>

\* The program counter is past the code: the frame ends without exception.
CodeEnds(e) ==
    /\ eng.x[e].op = "execute" /\ eng.x[e].run = "loop"
    /\ ~(pcOf(eng.x[e]) < Len(codeOf(eng.x[e])))
    /\ eng' = Halt(e, eng.x, Succeeded)
    /\ UNCHANGED <<trace, flatSteps, globalStepIndex, last, asm, hook>>

\* The interpreter fires afterMessage for the frame that ended; the frame
\* that dispatched the message goes on, and runCall returns.
AfterMessage(e) ==
    /\ eng.x[e].op = "execute" /\ eng.x[e].run = "after"
    /\ LET x == eng.x[e]
           result == IF x.depth = 0
                     THEN [execResult |-> x.execResult, createdAddress |-> CREATED]
                     ELSE IF lastOf(x.callees).created
                             /\ ~has(x.execResult, "exceptionError")
                     THEN [execResult |-> x.execResult,
                           createdAddress |-> CREATED_BY_OPCODE]
                     ELSE [execResult |-> x.execResult]
           xs == Deliver(x.evm, "afterMessage", result)
       IN  eng' = [eng EXCEPT
                     !.x = [xs EXCEPT ![e] =
                              [@ EXCEPT !.run = IF x.depth = 0 THEN "returned" ELSE "loop",
                                        !.callees = IF x.depth = 0 THEN @ ELSE popped(@),
                                        !.depth = IF x.depth = 0 THEN 0 ELSE @ - 1]]]
    /\ UNCHANGED <<trace, flatSteps, globalStepIndex, last, asm, hook>>

\* The listeners of an interpreter that stay when none is removed.
removeListener_none(events, e) == events

\* evm.events.removeListener, for the three handlers of an execution.
removeListener(events, e) == events \ {e}

\* The synthetic STOP step is removed: with appendedStop the last step of the
\* root frame goes when its opcode is STOP.
stripSyntheticStop(appendedStop, steps) ==
    IF appendedStop /\ Len(steps) > 0 /\ lastOf(steps).opcode = 0
    THEN popped(steps) ELSE steps

\* execute after the interpreter returned: the result of the root frame in
\* call mode, the checks for a root frame and for steps, the removal of the
\* synthetic STOP, and the trace returned; returning or throwing, the
\* handlers are removed from the interpreter.
Finish(e) ==
    /\ eng.x[e].op = "execute" /\ eng.x[e].run = "returned"
    /\ LET x == eng.x[e]
           exitReason == IF has(x.execResult, "exceptionError")
                         THEN mapExceptionToReason(x.execResult.exceptionError)
                         ELSE "success"
           frames == IF x.mode = "deploy" \/ x.rootFrame = 0 THEN x.frames
                     ELSE [x.frames EXCEPT ![x.rootFrame].result =
                              [exitReason |-> exitReason]]
           call == [mode |-> x.mode, bytes |-> x.bytes,
                    bytecode |-> x.bytecode, execBytecode |-> x.execBytecode,
                    appendedStop |-> x.appendedStop, evm |-> x.evm,
                    resets |-> x.resets, finished |-> x.finished,
                    world |-> x.world,
                    after |-> worldOf(eng.evms[x.evm]), recorded |-> frames]
       IN  eng' = [eng EXCEPT
                     !.evms[x.evm].events = removeListener(@, e),
                     !.x[e] =
                        IF x.rootFrame = 0
                        THEN [op |-> "threw", error |-> "rootFrame not initialized",
                              call |-> call]
                        ELSE IF Len(frames[x.rootFrame].steps) = 0
                        THEN [op |-> "threw", error |-> "Execution produced no steps",
                              call |-> call]
                        ELSE [op |-> "returned", call |-> call,
                              root |-> x.rootFrame,
                              frames |-> [frames EXCEPT ![x.rootFrame].steps =
                                             stripSyntheticStop(x.appendedStop, @)],
                              metadata |-> [mode |-> x.mode,
                                            success |-> ~has(x.execResult,
                                                             "exceptionError")]]]
    /\ UNCHANGED <<trace, flatSteps, globalStepIndex, last, asm, hook>>

InitEngine ==
    /\ eng = NewEngine
    /\ trace = <<>>
    /\ flatSteps = <<>>
    /\ globalStepIndex = 0
    /\ last = Idle
    /\ asm = Idle
    /\ hook = Idle

NextEngine ==
    \/ Execute
    \/ \E e \in Executions :
          \/ Run(e)
          \/ BeforeMessage(e)
          \/ Step(e)
          \/ Trap(e)
          \/ CodeEnds(e)
          \/ AfterMessage(e)
          \/ Finish(e)

SpecEngine == InitEngine /\ [][NextEngine]_vars

\* The calls of execute that follow one another or overlap: SSTORE in call
\* mode, PUSH1 0x00 in deploy mode.
LifecycleParams ==
    {[mode |-> call[1], bytes |-> call[2], bytecode |-> <<"0", "x">> \o BytesHex(call[2])] :
        call \in {<<"call", <<85>>>>, <<"deploy", <<96, 0>>>>}}

\* execute is called, for the first time or again, while an earlier call may
\* still be awaiting the interpreter.
ExecuteAgain ==
    \E e \in Executions, params \in LifecycleParams :
        /\ e = "b" => eng.x["a"] # Idle
        /\ ExecuteWith(e, params)

\* resetState: evmPromise is set to null.  With no interpreter there is
\* nothing to discard and the state of the engine stays as it is.
resetState ==
    /\ eng.evmPromise # 0
    /\ eng' = [eng EXCEPT !.evmPromise = 0, !.created = 0, !.resets = @ + 1]
    /\ UNCHANGED <<trace, flatSteps, globalStepIndex, last, asm, hook>>

NextLifecycle ==
    \/ ExecuteAgain
    \/ resetState
    \/ \E e \in Executions :
          \/ Run(e)
          \/ BeforeMessage(e)
          \/ Step(e)
          \/ Trap(e)
          \/ CodeEnds(e)
          \/ AfterMessage(e)
          \/ Finish(e)

SpecLifecycle == InitEngine /\ [][NextLifecycle]_vars

(* ------------------------- mapping of exceptions ------------------------ *)

\* Largest number of parts an error message is made of.
MaxParts == 2

\* The parts error messages are made of: the texts of the interpreter's
\* errors that the engine knows, one it does not know, and the empty text.
MessageParts ==
    <<<<"r", "e", "v", "e", "r", "t">>,
      <<"o", "u", "t", " ", "o", "f", " ", "g", "a", "s">>,
      <<"s", "t", "a", "c", "k", " ", "u", "n", "d", "e", "r", "f", "l", "o", "w">>,
      <<"s", "t", "a", "c", "k", " ", "o", "v", "e", "r", "f", "l", "o", "w">>,
      <<"i", "n", "v", "a", "l", "i", "d", " ", "j", "u", "m", "p">>,
      <<"s", "t", "a", "t", "i", "c", " ", "s", "t", "a", "t", "e", " ", "c", "h", "a", "n", "g", "e">>,
      <<"i", "n", "v", "a", "l", "i", "d", " ", "o", "p", "c", "o", "d", "e">>,
      <<>>>>

\* The message made of the parts, each followed by a semicolon.
RECURSIVE MessageOf(_)
MessageOf(parts) ==
    IF parts = <<>> THEN <<>>
    ELSE MessageParts[Head(parts)] \o <<";">> \o MessageOf(Tail(parts))

PartSeqs == UNION {[1..n -> DOMAIN MessageParts] : n \in 0..MaxParts}

\* What is thrown: an object with error, with message, or with both (the
\* message then made of the parts in reverse), or an object with neither,
\* whose String() is the message; the message in lower or upper case.
ThrownErrors ==
    UNION {{[about |-> parts, error |-> text],
            [about |-> parts, message |-> text],
            [about |-> parts, error |-> text, message |-> MessageOf(reverse(parts))],
            [about |-> parts, string |-> text]} :
              <<parts, text>> \in
                 {<<parts, IF upper THEN toUpperCase(MessageOf(parts)) ELSE MessageOf(parts)>> :
                     <<parts, upper>> \in PartSeqs \X BOOLEAN}}

\* mapExceptionToReason is called with what was thrown.
MapException ==
    /\ eng.op = "thrown"
    /\ eng' = [op |-> "mapped", exceptionError |-> eng.exceptionError,
               reason |-> mapExceptionToReason(eng.exceptionError)]
    /\ UNCHANGED <<trace, flatSteps, globalStepIndex, last, asm, hook>>

InitReason ==
    /\ eng \in {[op |-> "thrown", exceptionError |-> error] : error \in ThrownErrors}
    /\ trace = <<>>
    /\ flatSteps = <<>>
    /\ globalStepIndex = 0
    /\ last = Idle
    /\ asm = Idle
    /\ hook = Idle

NextReason == MapException

SpecReason == InitReason /\ [][NextReason]_vars

(* ====================== input views of useDebugger ======================= *)

\* The specification SpecInput follows the part of the useDebugger hook that
\* holds the text of the two input views: the calls of setSource and
\* setInputMode on it, each with the re-render that follows.  `last` records
\* the call, the mode it was made in, the mnemonic source there was when the
\* mnemonic view was last left and whether setSource was called in the
\* bytecode view since.

\* lastAssembledBytecodeRef: current is null or a text.
Ref(current) == [isNull |-> FALSE, current |-> current]

NullRef == [isNull |-> TRUE]

\* bytecodeSource === lastAssembledBytecodeRef.current
strictEquals(text, ref) == ~ref.isNull /\ ref.current = text

\* The hook after useState("mnemonic"), useState(""), useState(""), useRef(null).
useDebugger ==
    [inputMode |-> "mnemonic", mnemonicSource |-> <<>>, bytecodeSource |-> <<>>,
     lastAssembledBytecodeRef |-> NullRef]

setSource(h, s) ==
    IF h.inputMode = "mnemonic" THEN [h EXCEPT !.mnemonicSource = s]
    ELSE [h EXCEPT !.bytecodeSource = s]

setInputMode(h, newMode) ==
    IF newMode = h.inputMode THEN h
    ELSE IF newMode = "bytecode"
    THEN LET result == assemble(h.mnemonicSource)
         IN  IF result.ok
             THEN [h EXCEPT !.bytecodeSource = result.value,
                            !.lastAssembledBytecodeRef = Ref(result.value),
                            !.inputMode = newMode]
             ELSE [h EXCEPT !.inputMode = newMode]
    ELSE IF strictEquals(h.bytecodeSource, h.lastAssembledBytecodeRef)
    THEN [h EXCEPT !.inputMode = newMode]
    ELSE LET result == disassemble(h.bytecodeSource)
         IN  IF result.ok
             THEN [h EXCEPT !.mnemonicSource = result.value, !.inputMode = newMode]
             ELSE [h EXCEPT !.inputMode = newMode]

\* What is typed into the mnemonic view: nothing, a program, a program with
\* comments, an unknown mnemonic with a comment, a PUSH1 without immediate.
MnemonicTexts ==
    { <<>>,
      <<"S", "T", "O", "P">>,
      <<"P", "U", "S", "H", "1", " ", "1", " ", "/", "/", " ", "o", "n", "e", "\n", "S", "T", "O", "P">>,
      <<"F", "O", "O", " ", "/", "/", " ", "t", "o", "d", "o">>,
      <<"P", "U", "S", "H", "1">> }

\* What is typed into the bytecode view: nothing, two programs, an odd number
\* of digits, a digit that is none.
BytecodeTexts ==
    { <<>>,
      <<"0", "x", "0", "0">>,
      <<"6", "0", "0", "1", "5", "F">>,
      <<"0", "x", "0">>,
      <<"0", "x", "z", "z">> }

InputModes == {"bytecode", "mnemonic"}

SetSource ==
    /\ hook # Idle
    /\ \E s \in (IF hook.inputMode = "mnemonic" THEN MnemonicTexts ELSE BytecodeTexts) :
          /\ hook' = setSource(hook, s)
          /\ last' = [op |-> "setSource", from |-> hook.inputMode, left |-> last.left,
                      edited |-> last.edited \/ hook.inputMode = "bytecode"]
    /\ UNCHANGED <<trace, flatSteps, globalStepIndex, asm, eng>>

SetInputMode ==
    /\ hook # Idle
    /\ \E newMode \in InputModes :
          /\ hook' = setInputMode(hook, newMode)
          /\ last' = [op |-> "setInputMode", from |-> hook.inputMode,
                      newMode |-> newMode,
                      left |-> IF hook.inputMode = "mnemonic" /\ newMode = "bytecode"
                               THEN hook.mnemonicSource ELSE last.left,
                      edited |-> IF hook.inputMode = "mnemonic" /\ newMode = "bytecode"
                                 THEN FALSE ELSE last.edited]
    /\ UNCHANGED <<trace, flatSteps, globalStepIndex, asm, eng>>

InitInput ==
    /\ hook = useDebugger
    /\ last = [op |-> "useDebugger", from |-> "mnemonic", left |-> <<>>,
               edited |-> FALSE]
    /\ trace = <<>>
    /\ flatSteps = <<>>
    /\ globalStepIndex = 0
    /\ asm = Idle
    /\ eng = Idle

NextInput ==
    \/ SetSource
    \/ SetInputMode

SpecInput == InitInput /\ [][NextInput]_vars

(* ===================== properties of the debug session ================== *)

Frames == DOMAIN trace

Indices == 0..(Len(flatSteps) - 1)

\* The frame-creating opcodes: 0xf0, 0xf1, 0xf2, 0xf4, 0xf5, 0xfa.
FrameCreating == {240, 241, 242, 244, 245, 250}

\* The entry at index k is a real step executing a frame-creating opcode.
OnFrameCreatingStep(k) ==
    /\ ~flatSteps[k + 1].isFrameEnd
    /\ trace[flatSteps[k + 1].frame].steps[flatSteps[k + 1].stepIndex + 1].opcode
          \in FrameCreating

Least(S) == CHOOSE x \in S : \A y \in S : x <= y

Greatest(S) == CHOOSE x \in S : \A y \in S : x >= y

\* The frame whose children list holds c, and the stepIndex recorded there.
IsChildOf(c, f) == \E k \in 1..Len(trace[f].children) : trace[f].children[k].frame = c

ParentOf(c) == CHOOSE f \in Frames : IsChildOf(c, f)

SpawnIndexOf(c) ==
    LET kids == trace[ParentOf(c)].children
    IN  kids[CHOOSE k \in 1..Len(kids) : kids[k].frame = c].stepIndex

\* f is c or an ancestor of c in the frame tree.
RECURSIVE Encloses(_, _)
Encloses(f, c) ==
    \/ f = c
    \/ c # Root /\ Encloses(f, ParentOf(c))

\* The indices of the entries of frame f, and of f and its descendants.
EntriesOf(f) == {k \in Indices : flatSteps[k + 1].frame = f}

BlockOf(f) == {k \in Indices : Encloses(f, flatSteps[k + 1].frame)}

Depth(k) == Len(flatSteps[k + 1].callStack)

\* C1: stepOver on a real step of frame F with a frame-creating opcode moves
\* the cursor to the first later entry of F (F's next step or F's frame-end
\* marker), or to the last index if there is none, and never stops on an
\* entry of a descendant of F.
C1_StepOverSkipsCall ==
    (last.op = "stepOver" /\ OnFrameCreatingStep(last.from)) =>
        LET F     == flatSteps[last.from + 1].frame
            i     == flatSteps[last.from + 1].stepIndex
            later == {k \in EntriesOf(F) : k > last.from}
            here  == flatSteps[globalStepIndex + 1]
        IN  /\ globalStepIndex = IF later = {} THEN Len(flatSteps) - 1 ELSE Least(later)
            /\ later # {} => (here.stepIndex = i + 1 \/ here.isFrameEnd)
            /\ ~(here.frame # F /\ Encloses(F, here.frame))

\* A stepOver that skipped the entries of a child frame.
C1_Witness ==
    /\ last.op = "stepOver"
    /\ OnFrameCreatingStep(last.from)
    /\ globalStepIndex > last.from + 1
    /\ flatSteps[globalStepIndex + 1].frame = flatSteps[last.from + 1].frame

C3_StepOutToSpawningStep ==
    (last.op = "stepOut" /\ flatSteps[last.from + 1].frame # Root) =>
        LET child == flatSteps[last.from + 1].frame
        IN  /\ flatSteps[globalStepIndex + 1].frame = ParentOf(child)
            /\ flatSteps[globalStepIndex + 1].stepIndex = SpawnIndexOf(child)

\* C4: on a real step whose opcode is not frame-creating, or on a frame-end
\* marker, stepOver leaves the cursor where stepForward would.
C4_StepOverIsStepForward ==
    (last.op = "stepOver" /\ ~OnFrameCreatingStep(last.from)) =>
        globalStepIndex = stepForwardFrom(last.from)

\* A stepOver from the frame-end marker of a child frame.
C4_Witness ==
    /\ last.op = "stepOver"
    /\ flatSteps[last.from + 1].isFrameEnd
    /\ flatSteps[last.from + 1].frame # Root
    /\ globalStepIndex = last.from + 1

\* C5: stepForward adds exactly 1 to the cursor below the last index and
\* leaves it unchanged at the last index; stepBackward subtracts exactly 1
\* above 0 and leaves it unchanged at 0.
C5_StepByOne ==
    /\ last.op = "stepForward" =>
          globalStepIndex =
             IF last.from < Len(flatSteps) - 1 THEN last.from + 1 ELSE last.from
    /\ last.op = "stepBackward" =>
          globalStepIndex = IF last.from > 0 THEN last.from - 1 ELSE last.from

\* A stepForward onto the last index of a trace with several entries.
C5_Witness ==
    /\ last.op = "stepForward"
    /\ last.from = Len(flatSteps) - 2
    /\ globalStepIndex = Len(flatSteps) - 1
    /\ Len(flatSteps) > 2

\* C6: jumpTo(i) sets the cursor to min(max(i, 0), len(flatSteps) - 1), and
\* jumpTo of the resulting index leaves the cursor where it is.
C6_JumpToClamps ==
    last.op = "jumpTo" =>
        /\ globalStepIndex =
              IF last.arg < 0 THEN 0
              ELSE IF last.arg > Len(flatSteps) - 1 THEN Len(flatSteps) - 1
              ELSE last.arg
        /\ jumpToFrom(globalStepIndex) = globalStepIndex

\* A jumpTo beyond the last index.
C6_Witness ==
    /\ last.op = "jumpTo"
    /\ last.arg > Len(flatSteps) - 1
    /\ globalStepIndex = Len(flatSteps) - 1
    /\ Len(flatSteps) > 1

RECURSIVE EntryCount(_)
EntryCount(n) ==
    IF n = 0 THEN 0 ELSE Len(trace[n].steps) + 1 + EntryCount(n - 1)

\* C7: len(flatSteps) is the sum over all frames F of the trace of
\* len(F.steps) + 1.
C7_FlatLength == Len(flatSteps) = EntryCount(Cardinality(Frames))

\* A trace of three frames, one of them without steps.
C7_Witness ==
    /\ Cardinality(Frames) = 3
    /\ \E f \in Frames : Len(trace[f].steps) = 0
    /\ Len(flatSteps) = EntryCount(3)

\* The index of the entry of step i of frame f.
EntryOfStep(f, i) == CHOOSE k \in EntriesOf(f) : flatSteps[k + 1].stepIndex = i

\* C8: every frame contributes exactly one frame-end marker (stepIndex -1),
\* placed after all its real steps and after every entry of its descendants;
\* the entries of each child frame and its descendants form one contiguous
\* block that starts right after the entry of the parent step that spawned
\* it, or right after the preceding sibling's block when both share the
\* stepIndex, and that ends before the parent's next entry.
C8_FlatStructure ==
    /\ \A f \in Frames :
          LET ends == {k \in EntriesOf(f) : flatSteps[k + 1].isFrameEnd}
          IN  /\ Cardinality(ends) = 1
              /\ \A k \in ends : flatSteps[k + 1].stepIndex = -1
              /\ \A k \in ends : \A j \in BlockOf(f) : j <= k
              /\ \A i \in 0..(Len(trace[f].steps) - 1) :
                    Cardinality({k \in EntriesOf(f) : flatSteps[k + 1].stepIndex = i}) = 1
    /\ \A f \in Frames : \A n \in 1..Len(trace[f].children) :
          LET c     == trace[f].children[n].frame
              i     == trace[f].children[n].stepIndex
              block == BlockOf(c)
              first == Least(block)
              final == Greatest(block)
              after == {k \in EntriesOf(f) : k > EntryOfStep(f, i)}
          IN  /\ block # {}
              /\ block = first..final
              /\ first - 1 =
                    IF n > 1 /\ trace[f].children[n - 1].stepIndex = i
                    THEN Greatest(BlockOf(trace[f].children[n - 1].frame))
                    ELSE EntryOfStep(f, i)
              /\ after # {}
              /\ final < Least(after)

\* A frame with two children spawned at the same step.
C8_Witness ==
    \E f \in Frames :
        /\ Len(trace[f].children) = 2
        /\ trace[f].children[1].stepIndex = trace[f].children[2].stepIndex
        /\ Least(BlockOf(trace[f].children[2].frame)) =
              Greatest(BlockOf(trace[f].children[1].frame)) + 1

\* C9: the last entry of flatSteps is the root's frame-end marker, so after
\* jumpToEnd the cursor is at the last index, isAtFrameEnd holds, currentStep
\* is null and currentFrame is the root; and at every cursor position
\* currentStep is null exactly when isAtFrameEnd holds and otherwise is
\* currentFrame.steps[currentStepIndex].
C9_EndIsRootMarker ==
    /\ flatSteps[Len(flatSteps)].frame = Root
    /\ flatSteps[Len(flatSteps)].isFrameEnd
    /\ last.op = "jumpToEnd" =>
          /\ globalStepIndex = Len(flatSteps) - 1
          /\ isAtFrameEndAt(globalStepIndex)
          /\ currentStepAt(globalStepIndex) = null
          /\ currentFrameAt(globalStepIndex) = Root
    /\ \A k \in Indices :
          /\ currentStepAt(k) = null <=> isAtFrameEndAt(k)
          /\ ~isAtFrameEndAt(k) =>
                /\ currentStepIndexAt(k) \in 0..(Len(trace[currentFrameAt(k)].steps) - 1)
                /\ currentStepAt(k) =
                      trace[currentFrameAt(k)].steps[currentStepIndexAt(k) + 1]

\* A jumpToEnd on a trace whose last entry before the root's marker belongs
\* to a child frame.
C9_Witness ==
    /\ last.op = "jumpToEnd"
    /\ globalStepIndex = Len(flatSteps) - 1
    /\ Len(flatSteps) > 2
    /\ flatSteps[Len(flatSteps) - 1].frame # Root

\* C10: addBreakpoint(condition) returns a Breakpoint carrying an id, and
\* getBreakpoints() contains that breakpoint until removeBreakpoint(id).
C10_AddedBreakpointIsListed ==
    last.op = "addBreakpoint" =>
        /\ ~last.threw
        /\ \E k \in 1..Len(getBreakpointsResult) :
              /\ getBreakpointsResult[k] = last.ret
              /\ getBreakpointsResult[k].condition = last.arg

\* C11: with no breakpoint matching (none can be set) continueForward moves
\* the cursor to the last index and returns false, and continueBackward
\* moves it to index 0 and returns false.
C11_ContinueRunsToTheEnd ==
    /\ last.op = "continueForward" =>
          (globalStepIndex = Len(flatSteps) - 1 /\ last.ret = FALSE)
    /\ last.op = "continueBackward" =>
          (globalStepIndex = 0 /\ last.ret = FALSE)

(* ======================= properties of the opcode table ================== *)

EntriesWithCode(c) == {k \in DOMAIN opcodeTable : opcodeTable[k].code = c}

EntriesWithMnemonic(m) == {k \in DOMAIN opcodeTable : opcodeTable[k].mnemonic = m}

\* C17: no two entries of the opcode table share a code or a mnemonic;
\* getOpcodeByCode(c) returns an entry of the table whose code is c, or
\* undefined when the table has no entry with code c; and looking up the
\* mnemonic of the entry returned for a defined c returns that same entry.
C17_TableLookups ==
    /\ asm.op = "getOpcodeByCode" =>
          /\ Cardinality(EntriesWithCode(asm.code)) <= 1
          /\ (asm.info = undefined) <=> (EntriesWithCode(asm.code) = {})
          /\ asm.info # undefined =>
                /\ asm.info \in Range(opcodeTable)
                /\ asm.info.code = asm.code
                /\ asm.info.code \in Bytes
                /\ getOpcodeByMnemonic(asm.info.mnemonic) = asm.info
    /\ asm.op = "getOpcodeByMnemonic" =>
          Cardinality(EntriesWithMnemonic(asm.mnemonic)) <= 1

C17_Witness ==
    /\ asm.op = "getOpcodeByCode"
    /\ asm.code = 127
    /\ asm.info # undefined
    /\ asm.info.mnemonic = PUSH \o <<"3", "2">>

\* C18: for every k in 1..32 the entry PUSHk exists, has code 0x5f + k and
\* has immediateBytes k; PUSH0 and every other entry has immediateBytes 0.
C18_PushImmediates ==
    /\ asm.op = "getOpcodeByMnemonic" =>
          /\ \A k \in 1..32 :
                asm.mnemonic = PUSH \o Decimal(k) =>
                    /\ asm.info # undefined
                    /\ asm.info.code = 95 + k
                    /\ asm.info.immediateBytes = k
          /\ (asm.info # undefined
                /\ \A k \in 1..32 : asm.mnemonic # PUSH \o Decimal(k)) =>
                    asm.info.immediateBytes = 0
    /\ (asm.op = "getOpcodeByCode" /\ asm.info # undefined) =>
          asm.info.immediateBytes =
              IF asm.code \in 96..127 THEN asm.code - 95 ELSE 0

C18_Witness ==
    /\ asm.op = "getOpcodeByMnemonic"
    /\ asm.mnemonic = PUSH \o <<"1", "7">>
    /\ asm.info # undefined
    /\ asm.info.immediateBytes = 17

(* ========================= properties of the assembler =================== *)

\* C13: for PUSHn (n > 0 immediate bytes) with operand value v, assemble
\* succeeds exactly when 0 <= v <= 2^(8n) - 1 and then returns 0x, the opcode
\* byte and exactly 2n lowercase hex characters, the big-endian zero-padded
\* encoding of v; for v >= 2^(8n) it fails because the value does not fit and
\* for v < 0 because it is negative, and returns no bytecode.
C13_ImmediateEncoding ==
    (asm.op = "assemble" /\ asm.about.kind = "operand") =>
        LET n == asm.about.n
            v == asm.about.v
        IN  /\ asm.result.ok <=> (0 <= v /\ v <= 2 ^ (8 * n) - 1)
            /\ asm.result.ok =>
                  /\ asm.result.value = <<"0", "x">> \o ByteHex(95 + n) \o BigEndian(v, n)
                  /\ Len(asm.result.value) = 2 + 2 + 2 * n
                  /\ \A k \in 5..Len(asm.result.value) :
                        asm.result.value[k] \in Range(HexDigits)
            /\ v >= 2 ^ (8 * n) =>
                  /\ ~asm.result.ok
                  /\ asm.result.error = "Invalid immediate value"
                  /\ asm.result.cause = "Value does not fit"
            /\ v < 0 =>
                  /\ ~asm.result.ok
                  /\ asm.result.error = "Invalid immediate value"
                  /\ asm.result.cause = "Negative value not allowed"
            /\ ~asm.result.ok => "value" \notin DOMAIN asm.result

C13_Witness ==
    /\ asm.op = "assemble"
    /\ asm.about.kind = "operand"
    /\ asm.about.n = 2
    /\ asm.about.v = 256
    /\ asm.about.style = "decimal"
    /\ asm.source = <<"P", "U", "S", "H", "2", " ", "2", "5", "6">>
    /\ asm.result.ok
    /\ asm.result.value = <<"0", "x", "6", "1", "0", "1", "0", "0">>

\* The instructions of a byte sequence from the byte at place i on: the
\* opcode byte, whether the table defines it, its immediate size and the
\* bytes that are left for its operand.
RECURSIVE InstructionsFrom(_, _)
InstructionsFrom(bytes, i) ==
    IF i > Len(bytes) THEN <<>>
    ELSE
    LET defined == EntriesWithCode(bytes[i]) # {}
        entry == opcodeTable[CHOOSE k \in EntriesWithCode(bytes[i]) : TRUE]
        n == IF defined THEN entry.immediateBytes ELSE 0
    IN  <<[byte |-> bytes[i], defined |-> defined, n |-> n,
           mnemonic |-> IF defined THEN entry.mnemonic ELSE <<>>,
           operand |-> SubSeq(bytes, i + 1, Min(i + n, Len(bytes)))]>>
            \o InstructionsFrom(bytes, i + 1 + n)

Truncated(instr) == Len(instr.operand) < instr.n

TruncatedMark == <<" ", "/", "/", " ", "t", "r", "u", "n", "c", "a", "t", "e", "d">>

EndsWith(s, suffix) ==
    Len(s) >= Len(suffix) /\ SubSeq(s, Len(s) - Len(suffix) + 1, Len(s)) = suffix

\* The line of an instruction.
InstructionLine(instr) ==
    IF ~instr.defined
    THEN <<"I", "N", "V", "A", "L", "I", "D", "(", "0", "x">>
             \o ByteHex(instr.byte) \o <<")">>
    ELSE IF instr.n = 0 THEN instr.mnemonic
    ELSE instr.mnemonic \o <<" ", "0", "x">> \o BytesHex(instr.operand)
             \o (IF Truncated(instr) THEN TruncatedMark ELSE <<>>)

\* The lines of a text; the empty text has none.
LinesOf(text) == IF text = <<>> THEN <<>> ELSE split(text, "\n")

\* C16: disassemble walks the bytes from offset 0 and returns one line per
\* instruction: INVALID(0xNN) for a byte without table entry, which takes one
\* byte; the mnemonic and the next n bytes as operand for an opcode with
\* immediate size n; with the suffix "// truncated" exactly when fewer than n
\* bytes are left, which is only ever the case on the last line.
C16_DisassembleLines ==
    (asm.op = "disassemble" /\ asm.about.kind = "bytes") =>
        LET instrs == InstructionsFrom(asm.about.bytes, 1)
            lines == LinesOf(asm.result.value)
        IN  /\ asm.result.ok
            /\ Len(lines) = Len(instrs)
            /\ \A k \in DOMAIN instrs :
                  /\ lines[k] = InstructionLine(instrs[k])
                  /\ EndsWith(lines[k], TruncatedMark) <=> Truncated(instrs[k])
                  /\ Truncated(instrs[k]) => k = Len(instrs)

C16_Witness ==
    /\ asm.op = "disassemble"
    /\ asm.about.kind = "bytes"
    /\ asm.about.bytes = <<12, 97, 0>>
    /\ asm.bytecode = <<"0", "X", "0", "C", "6", "1", "0", "0">>
    /\ asm.result.ok
    /\ asm.result.value =
          <<"I", "N", "V", "A", "L", "I", "D", "(", "0", "x", "0", "c", ")", "\n",
            "P", "U", "S", "H", "2", " ", "0", "x", "0", "0">> \o TruncatedMark

\* Every immediate of the program is written with all 2n digits of its n bytes.
FullWidth(prog) == \A k \in DOMAIN prog : Len(prog[k].digits) = 2 * prog[k].n

\* C12 as stated: a source in canonical form (upper-case mnemonic, one space
\* and a 0x-prefixed lowercase immediate that fits, lines separated by \n, no
\* comments) assembles, and disassembling the bytecode gives the source back.
C12_RoundTrip ==
    /\ (asm.op = "assemble" /\ asm.about.kind = "canonical") => asm.result.ok
    /\ (asm.op = "disassemble" /\ asm.about.kind = "assembled"
            /\ asm.about.of.kind = "canonical") =>
          (asm.result.ok /\ asm.result.value = asm.about.source)

\* C12, amended: a source in canonical form whose immediates are written with
\* exactly 2n lowercase hex digits for a mnemonic of immediate size n
\* assembles, and disassembling the bytecode gives the source back.
C12_RoundTripFullWidth ==
    /\ (asm.op = "assemble" /\ asm.about.kind = "canonical") => asm.result.ok
    /\ (asm.op = "disassemble" /\ asm.about.kind = "assembled"
            /\ asm.about.of.kind = "canonical"
            /\ FullWidth(asm.about.of.prog)) =>
          (asm.result.ok /\ asm.result.value = asm.about.source)

C12_Witness ==
    /\ asm.op = "disassemble"
    /\ asm.about.kind = "assembled"
    /\ asm.about.of.kind = "canonical"
    /\ FullWidth(asm.about.of.prog)
    /\ asm.about.source =
          <<"P", "U", "S", "H", "2", " ", "0", "x", "0", "f", "0", "f", "\n",
            "P", "U", "S", "H", "0">>
    /\ asm.bytecode = <<"0", "x", "6", "1", "0", "f", "0", "f", "5", "f">>
    /\ asm.result.value = asm.about.source

\* C15: a // comment appended to a line, a block comment (on one line or
\* over several) put between two whitespace-separated tokens or on lines of
\* its own, and an added empty or whitespace-only line leave what assemble
\* returns for the source as it is: the same bytecode, or a failure as before.
C15_CommentsKeepBytecode ==
    (asm.op = "assemble" /\ asm.about.kind = "commented") =>
        LET plain == assemble(ProgramText(asm.about.prog))
        IN  /\ asm.result.ok <=> plain.ok
            /\ plain.ok => asm.result.value = plain.value

C15_Witness ==
    /\ asm.op = "assemble"
    /\ asm.about.kind = "commented"
    /\ asm.source =
          <<"P", "U", "S", "H", "1", " ",
            "/", "*", " ", "a", "\n", "/", "/", " ", "b", "\n", " ", "*", "/",
            "0", "x", "0", "a", "\n", "S", "T", "O", "P">>
    /\ asm.result.ok
    /\ asm.result.value = <<"0", "x", "6", "0", "0", "a", "0", "0">>

\* The number of line breaks in a text.
LineBreaks(text) == Cardinality({k \in DOMAIN text : text[k] = "\n"})

\* The number of characters of the source before line j of the program.
RECURSIVE OffsetOfLine(_, _)
OffsetOfLine(prog, j) ==
    IF j = 1 THEN 0
    ELSE OffsetOfLine(prog, j - 1) + Len(InstrText(prog[j - 1])) + 1

\* The 1-based line, in the source with its additions, of line j of the program.
RECURSIVE LineInSource(_, _, _)
LineInSource(prog, additions, j) ==
    IF additions = <<>> THEN j
    ELSE LineInSource(prog, Tail(additions), j)
             + (IF Head(additions).at <= OffsetOfLine(prog, j)
                THEN LineBreaks(Head(additions).text) ELSE 0)

Faulty(prog) == {k \in DOMAIN prog : prog[k].fault # "none"}

\* C14: when a source has an instruction with an unknown mnemonic, a missing
\* immediate or an invalid immediate, assemble fails with the fault of the
\* first such instruction and reports the 1-based number of that
\* instruction's line in the source it was given, wherever comments (line
\* comments, block comments, block comments over several lines) were put.
C14_ErrorLine ==
    (asm.op = "assemble" /\ asm.about.kind = "commented"
        /\ Faulty(asm.about.prog) # {}) =>
        LET prog == asm.about.prog
            first == CHOOSE j \in Faulty(prog) : \A k \in Faulty(prog) : j <= k
        IN  /\ ~asm.result.ok
            /\ asm.result.error = prog[first].fault
            /\ asm.result.line = LineInSource(prog, asm.about.additions, first)

(* ========================== properties of the engine ===================== *)

\* The steps of the root frame of a trace returned.
RootSteps(r) == r.frames[r.root].steps

\* C19: every trace execute returns has at least one step in its root
\* frame; a run that leaves the root frame without steps, as the run of the
\* empty bytecode 0x does, makes execute fail for want of steps instead.
C19_RootHasSteps ==
    \A e \in Executions :
        LET r == eng.x[e]
        IN  /\ r.op = "returned" => Len(RootSteps(r)) >= 1
            /\ (r.op \in {"returned", "threw"} /\ r.call.bytes = <<>>) =>
                  (r.op = "threw" /\ r.error = "Execution produced no steps")

\* C20: execute runs the bytecode followed by 00, with appendedStop true,
\* exactly when the bytecode is empty or its last byte is none of 0x00, 0xf3,
\* 0xfd, 0xfe, 0xff; otherwise it runs the bytecode as given, with
\* appendedStop false.
C20_TerminalOpcodeEnsured ==
    \A e \in Executions :
        LET x == eng.x[e]
        IN  x.op = "execute" =>
                LET appended == \/ x.bytes = <<>>
                                \/ x.bytes[Len(x.bytes)] \notin {0, 243, 253, 254, 255}
                IN  /\ x.appendedStop = appended
                    /\ x.execBytecode =
                          IF appended THEN x.bytecode \o <<"0", "0">> ELSE x.bytecode
                    /\ x.code = IF appended THEN x.bytes \o <<0>> ELSE x.bytes

C20_Witness ==
    \E e \in Executions :
        LET x == eng.x[e]
        IN  /\ x.op = "execute"
            /\ x.bytecode = <<"0", "x", "0", "1", "F", "E">>
            /\ x.execBytecode = x.bytecode
            /\ ~x.appendedStop
            /\ x.rootFrame # 0
            /\ Len(x.frames[x.rootFrame].steps) = 2
            /\ x.frames[x.rootFrame].steps[2].opcode = 254
            /\ x.frames[x.rootFrame].steps[2].pc = 1

\* C21: in every trace execute returns, in call mode and in deploy mode,
\* metadata.success is true exactly when the exit reason of the root frame's
\* result is "success".
C21_SuccessIsRootExitReason ==
    \A e \in Executions :
        LET r == eng.x[e]
        IN  r.op = "returned" =>
                (r.metadata.success <=> r.frames[r.root].result.exitReason = "success")

\* A trace returned in deploy mode whose root frame ended with an exception
\* the engine knows no text of.
C21_Witness ==
    \E e \in Executions :
        LET r == eng.x[e]
        IN  /\ r.op = "returned"
            /\ r.metadata.mode = "deploy"
            /\ ~r.metadata.success
            /\ r.frames[r.root].result.exitReason = "invalid"

\* C22: in every trace returned, each child of each frame is attached at the
\* index of a step of that frame, and the children of a frame are in
\* non-decreasing order of that index, the root's also after the synthetic
\* STOP was removed.
C22_ChildrenAtSteps ==
    \A e \in Executions :
        LET r == eng.x[e]
        IN  r.op = "returned" =>
                \A f \in DOMAIN r.frames :
                    LET F == r.frames[f]
                    IN  /\ \A c \in DOMAIN F.children :
                              /\ 0 <= F.children[c].stepIndex
                              /\ F.children[c].stepIndex < Len(F.steps)
                        /\ \A c, d \in DOMAIN F.children :
                              c < d => F.children[c].stepIndex <= F.children[d].stepIndex

\* A trace whose root frame lost its synthetic STOP and has a child at its
\* first and a child at its last step, the first child having a child too.
C22_Witness ==
    \E e \in Executions :
        LET r == eng.x[e]
        IN  /\ r.op = "returned"
            /\ r.call.appendedStop
            /\ Len(r.call.recorded[r.root].steps) = Len(RootSteps(r)) + 1
            /\ Len(r.frames[r.root].children) = 2
            /\ r.frames[r.root].children[1].stepIndex = 0
            /\ r.frames[r.root].children[2].stepIndex = Len(RootSteps(r)) - 1
            /\ r.frames[r.root].children[2].stepIndex = 1

\* The frames an execution has built, or the frames of the trace it returned.
FramesOf(r) ==
    IF r.op \in {"execute", "returned"} THEN r.frames ELSE <<>>

\* The storage after the changes are made in their order.
RECURSIVE WithChanges(_, _)
WithChanges(storage, changes) ==
    IF changes = <<>> THEN storage
    ELSE WithChanges(setProperty(storage, Head(changes).slot, Head(changes).after),
                     Tail(changes))

\* The slots the first n steps recorded a change of, each with the `after`
\* of its latest change.
RECURSIVE WrittenBy(_, _)
WrittenBy(steps, n) ==
    IF n = 0 THEN <<>>
    ELSE WithChanges(WrittenBy(steps, n - 1), steps[n].storageChanges)

C29_OnlySyntheticStopRemoved ==
    \A e \in Executions :
        LET r == eng.x[e]
        IN  r.op = "returned" =>
                LET recorded == r.call.recorded[r.root].steps
                IN  RootSteps(r) # recorded =>
                        /\ r.call.appendedStop
                        /\ RootSteps(r) = popped(recorded)
                        /\ lastOf(recorded).pc = Len(r.call.bytes)

\* C30: in every trace returned, in call mode and in deploy mode, every step
\* of every frame has stackAfter and memoryAfter, the last step of each frame
\* included.
C30_StepsHaveStateAfter ==
    \A e \in Executions :
        LET r == eng.x[e]
        IN  r.op = "returned" =>
                \A f \in DOMAIN r.frames :
                    \A n \in DOMAIN r.frames[f].steps :
                        /\ has(r.frames[f].steps[n], "stackAfter")
                        /\ has(r.frames[f].steps[n], "memoryAfter")

\* C24: when execute fails, the world state of the engine's interpreter
\* after the failure is the world state before the call.
C24_FailureKeepsWorldState ==
    \A e \in Executions :
        LET r == eng.x[e]
        IN  r.op = "threw" => r.call.after = r.call.world

\* What a call of execute recorded when it was made: its interpreter, the
\* number of interpreters resetState had discarded, the world state found.
CallOf(r) == IF r.op \in {"returned", "threw"} THEN r.call ELSE r

CalledExecutions == {e \in Executions : eng.x[e] # Idle}

\* C25: calls of execute with no resetState between them run on the same
\* interpreter, and a call made after another has finished finds the world
\* state that one left; a call made after resetState runs on another
\* interpreter, which starts with the world state of a new one; and since
\* construction or the latest resetState at most one interpreter was created.
C25_OneInterpreterBetweenResets ==
    /\ eng.created <= 1
    /\ \A e \in CalledExecutions : CallOf(eng.x[e]).evm \in 1..Len(eng.evms)
    /\ \A e, f \in CalledExecutions :
          LET call == CallOf(eng.x[e])
              other == CallOf(eng.x[f])
          IN  /\ call.resets = other.resets <=> call.evm = other.evm
              /\ call.resets < other.resets => call.evm < other.evm
              /\ (call.resets = other.resets /\ f \in call.finished) =>
                    call.world = eng.x[f].call.after
    /\ \A e \in CalledExecutions :
          (\A f \in CalledExecutions \ {e} :
              CallOf(eng.x[f]).resets # CallOf(eng.x[e]).resets \/ e = "a") =>
              CallOf(eng.x[e]).world = worldOf(NewEvm)

\* The second call runs on the interpreter of the first, which has returned
\* after writing 1 to slot 0, and the step of its own SSTORE to slot 0 shows
\* that value as the one before.
C25_Witness ==
    /\ eng.x["a"].op = "returned"
    /\ eng.x["b"].op = "execute"
    /\ eng.x["b"].evm = eng.x["a"].call.evm
    /\ "a" \in eng.x["b"].finished
    /\ eng.x["b"].rootFrame = Root
    /\ \E n \in DOMAIN eng.x["b"].frames[Root].steps :
          LET changes == eng.x["b"].frames[Root].steps[n].storageChanges
          IN  /\ changes # <<>>
              /\ changes[1].slot = <<"0", "x", "0">>
              /\ changes[1].before = <<"0", "x", "0", "1">>

\* The executions whose handlers are registered on some interpreter.
Registered(engine) ==
    {e \in Executions : \E i \in DOMAIN engine.evms : e \in engine.evms[i].events}

Finished(r) == r.op \in {"returned", "threw"}

\* C26: once execute has finished, by returning a trace or by throwing, its
\* handlers are registered on no interpreter, and from then on nothing that
\* happens, a later execute included, changes what it returned or threw.
C26_HandlersRemoved ==
    [][\A e \in Executions :
          Finished(eng'.x[e]) =>
              /\ e \notin Registered(eng')
              /\ Finished(eng.x[e]) => eng'.x[e] = eng.x[e]]_vars

\* The first call has thrown for want of steps and is registered nowhere,
\* while the second call, on the same interpreter, has recorded a step.
C26_Witness ==
    /\ eng.x["a"].op = "threw"
    /\ eng.x["a"].error = "Execution produced no steps"
    /\ eng.x["b"].op = "execute"
    /\ eng.x["b"].evm = eng.x["a"].call.evm
    /\ "a" \in eng.x["b"].finished
    /\ Registered(eng) = {"b"}
    /\ eng.x["b"].rootFrame = Root
    /\ Len(eng.x["b"].frames[Root].steps) > 0

\* C27: the engine has one active execution at a time: two calls of execute
\* never have their handlers registered on the interpreter together, and no
\* step that the run of one call produced is recorded in the frames of the
\* other.
C27_OneActiveExecution ==
    /\ \A i \in DOMAIN eng.evms : Cardinality(eng.evms[i].events) <= 1
    /\ \A e \in Executions :
          \A f \in DOMAIN FramesOf(eng.x[e]) :
              \A n \in DOMAIN FramesOf(eng.x[e])[f].steps :
                  FramesOf(eng.x[e])[f].steps[n].by = e

\* The operations that move the cursor.
NavigationOps ==
    {"stepForward", "stepBackward", "stepOver", "stepOut", "jumpTo", "jumpToStart",
     "jumpToEnd", "continueForward", "continueBackward"}

\* C28: a navigation operation (stepForward, stepBackward, stepOver, stepOut,
\* jumpTo, jumpToStart, jumpToEnd, continueForward, continueBackward) leaves
\* the trace, flatSteps and every frame and step as they were and changes at
\* most globalStepIndex; a derived read (currentFrame, currentStep,
\* currentStepIndex, isAtFrameEnd, getCallStack) leaves all of them,
\* globalStepIndex included, as they were.
C28_NavigationMovesOnlyCursor ==
    [][/\ last'.op \in NavigationOps \cup DerivedReads
            => /\ trace' = trace
               /\ flatSteps' = flatSteps
               /\ asm' = asm
               /\ eng' = eng
       /\ last'.op \in DerivedReads => globalStepIndex' = globalStepIndex]_vars

\* A read of the call stack inside a child frame, after navigation has moved
\* the cursor there, on the session as the constructor built it.
C28_Witness ==
    /\ last.op = "getCallStack"
    /\ globalStepIndex > 0
    /\ Len(last.ret) > 1
    /\ last.ret = getCallStackAt(globalStepIndex)
    /\ flatSteps = flattenSteps(trace)

\* C31: of two consecutive steps of a frame, the synthetic STOP included, the
\* first has the stack of the second as its stackAfter and the memory of the
\* second as its memoryAfter, also when a child frame ran between them; and a
\* recorded step changes only when the next step is appended to its own
\* frame or when its frame ends, never at a step event of another frame.
C31_RetroFillWithinFrame ==
    [][\A e \in Executions :
          LET old == FramesOf(eng.x[e])
              new == FramesOf(eng'.x[e])
          IN  /\ \A f \in DOMAIN new :
                    \A i \in 1..(Len(new[f].steps) - 1) :
                        /\ has(new[f].steps[i], "stackAfter")
                        /\ has(new[f].steps[i], "memoryAfter")
                        /\ new[f].steps[i].stackAfter = new[f].steps[i + 1].stack
                        /\ new[f].steps[i].memoryAfter = new[f].steps[i + 1].memory.current
              /\ \A f \in DOMAIN old \cap DOMAIN new :
                    \A i \in DOMAIN old[f].steps \cap DOMAIN new[f].steps :
                        new[f].steps[i] # old[f].steps[i] =>
                            /\ i = Len(old[f].steps)
                            /\ \/ Len(new[f].steps) = i + 1
                               \/ /\ eng.x[e].op = "execute"
                                  /\ eng.x[e].frameStack # <<>>
                                  /\ f = top(eng.x[e])
                                  /\ eng'.x[e].frameStack = popped(eng.x[e].frameStack)]_vars

\* The root frame's CALL step and its next step, an SSTORE, with a child
\* frame between them whose own step, an SSTORE too, had another stack: the
\* CALL step has the stack of the root's SSTORE as its stackAfter.
C31_Witness ==
    \E e \in Executions :
        LET x == eng.x[e]
        IN  /\ x.op = "execute" /\ x.rootFrame # 0
            /\ Len(x.frames[x.rootFrame].steps) = 2
            /\ x.frames[x.rootFrame].steps[1].opcode = OP_CALL
            /\ Len(x.frames[x.rootFrame].children) = 1
            /\ x.frames[x.rootFrame].children[1].stepIndex = 0
            /\ LET child == x.frames[x.frames[x.rootFrame].children[1].frame]
               IN  /\ Len(child.steps) = 1
                   /\ child.steps[1].stack # <<>>
                   /\ child.steps[1].stack # x.frames[x.rootFrame].steps[2].stack
            /\ x.frames[x.rootFrame].steps[2].stack # <<>>
            /\ has(x.frames[x.rootFrame].steps[1], "stackAfter")
            /\ x.frames[x.rootFrame].steps[1].stackAfter
                  = x.frames[x.rootFrame].steps[2].stack

\* The frame types named after the opcode that creates the frame.
NamedTypes ==
    {[mnemonic |-> <<"C", "R", "E", "A", "T", "E">>, type |-> "CREATE"],
     [mnemonic |-> <<"C", "R", "E", "A", "T", "E", "2">>, type |-> "CREATE2"],
     [mnemonic |-> <<"S", "T", "A", "T", "I", "C", "C", "A", "L", "L">>,
      type |-> "STATICCALL"],
     [mnemonic |-> <<"D", "E", "L", "E", "G", "A", "T", "E", "C", "A", "L", "L">>,
      type |-> "DELEGATECALL"],
     [mnemonic |-> <<"C", "A", "L", "L", "C", "O", "D", "E">>, type |-> "CALLCODE"]}

\* The child entries of the frames: parent, position among its children.
ChildEntries(frames) ==
    UNION {{<<f, c>> : c \in DOMAIN frames[f].children} : f \in DOMAIN frames}

\* The root frame of an execution that has frames.
RootOf(r) == IF r.op = "execute" THEN r.rootFrame ELSE r.root

\* C32: a frame below the root is attached to its parent with the index of
\* the parent's most recent step at the time of its beforeMessage; its type
\* is CREATE, CREATE2, STATICCALL, DELEGATECALL or CALLCODE when that step has
\* that mnemonic and CALL otherwise; and exactly one frame has type ROOT, the
\* root of the tree, every other frame being the child of exactly one frame.
C32_ChildIndexAndType ==
    [][\A e \in Executions :
          LET old == FramesOf(eng.x[e])
              new == FramesOf(eng'.x[e])
          IN  /\ new # <<>> =>
                    /\ {f \in DOMAIN new : new[f].type = "ROOT"} = {RootOf(eng'.x[e])}
                    /\ \A f \in DOMAIN new \ {RootOf(eng'.x[e])} :
                          Cardinality({p \in ChildEntries(new) :
                                          new[p[1]].children[p[2]].frame = f}) = 1
                    /\ \A p \in ChildEntries(new) :
                          new[p[1]].children[p[2]].frame # RootOf(eng'.x[e])
              /\ \A p \in ChildEntries(new) :
                    LET P == new[p[1]]
                        k == P.children[p[2]].stepIndex
                        C == new[P.children[p[2]].frame]
                    IN  /\ k \in 0..(Len(P.steps) - 1)
                        /\ \A n \in NamedTypes :
                              P.steps[k + 1].mnemonic = n.mnemonic => C.type = n.type
                        /\ (\A n \in NamedTypes : P.steps[k + 1].mnemonic # n.mnemonic)
                              => C.type = "CALL"
                        /\ p \notin ChildEntries(old) =>
                              /\ p[1] \in DOMAIN old
                              /\ k = Len(old[p[1]].steps) - 1
                              /\ P.steps = old[p[1]].steps
                              /\ C.steps = <<>>]_vars

\* A trace returned whose root has a child of type CREATE2 at its first
\* step, which in its turn has a child of type CALL at its first step.
C32_Witness ==
    \E e \in Executions :
        LET r == eng.x[e]
        IN  /\ r.op = "returned"
            /\ r.frames[r.root].type = "ROOT"
            /\ Len(r.frames[r.root].children) = 1
            /\ r.frames[r.root].children[1].stepIndex = 0
            /\ r.frames[r.root].steps[1].opcode = OP_CREATE2
            /\ LET C == r.frames[r.frames[r.root].children[1].frame]
               IN  /\ C.type = "CREATE2"
                   /\ Len(C.children) = 1
                   /\ C.children[1].stepIndex = 0
                   /\ C.steps[1].opcode = OP_CALL
                   /\ r.frames[C.children[1].frame].type = "CALL"

\* The frames the interpreter of an execution has open: the frame runCode or
\* runCall runs and one for each message dispatched below it; none before
\* the beforeMessage of runCall and none once that frame's afterMessage fired.
OpenFrames(x) ==
    IF x.run = "runCall" \/ (x.run = "returned" /\ x.mode = "deploy") THEN 0
    ELSE x.depth + 1

\* C33: while execute runs, the frame stack is the path from the root frame
\* to the innermost frame the interpreter has open, each entry a child of the
\* entry below it; a step is appended only to the frame on top of the stack;
\* a result is set only on the frame on top of the stack, which is popped
\* with it, and a popped frame's result is that of its own exit; frame ids
\* are pairwise distinct; and in deploy mode the stack is empty when the
\* interpreter has returned.
C33_FrameStackIsOpenPath ==
    [][\A e \in Executions :
          LET x == eng.x[e]
              y == eng'.x[e]
          IN  /\ y.op = "execute" =>
                    /\ Len(y.frameStack) = OpenFrames(y)
                    /\ y.frameStack # <<>> => y.frameStack[1] = y.rootFrame
                    /\ \A i \in 1..(Len(y.frameStack) - 1) :
                          \E c \in DOMAIN y.frames[y.frameStack[i]].children :
                              y.frames[y.frameStack[i]].children[c].frame
                                  = y.frameStack[i + 1]
                    /\ \A f, g \in DOMAIN y.frames : f # g => y.frames[f].id # y.frames[g].id
                    /\ (y.mode = "deploy" /\ y.run = "returned") => y.frameStack = <<>>
                    /\ \A f \in DOMAIN y.frames :
                          (f \notin Range(y.frameStack) /\ y.frames[f].steps # <<>>) =>
                              LET halted == lastOf(y.frames[f].steps).opcode
                              IN  /\ halted = OP_STOP => y.frames[f].result.exitReason = "success"
                                  /\ halted = OP_REVERT => y.frames[f].result.exitReason = "revert"
              /\ (x.op = "execute" /\ y.op = "execute") =>
                    \A f \in DOMAIN x.frames :
                        /\ Len(y.frames[f].steps) # Len(x.frames[f].steps) =>
                              /\ x.frameStack # <<>>
                              /\ f = lastOf(x.frameStack)
                              /\ y.frameStack = x.frameStack
                              /\ Len(y.frames[f].steps) = Len(x.frames[f].steps) + 1
                        /\ y.frames[f].result # x.frames[f].result =>
                              /\ x.frameStack # <<>>
                              /\ f = lastOf(x.frameStack)
                              /\ y.frameStack = popped(x.frameStack)]_vars

\* A frame stack of three frames, the root, its child and the child's child,
\* the innermost with a step of its own.
C33_Witness ==
    \E e \in Executions :
        LET x == eng.x[e]
        IN  /\ x.op = "execute"
            /\ x.mode = "deploy"
            /\ Len(x.frameStack) = 3
            /\ x.frameStack[1] = x.rootFrame
            /\ Len(x.frames[x.frameStack[3]].steps) = 1
            /\ Len(x.frames[x.frameStack[2]].steps) = 1
            /\ x.frames[x.frameStack[3]].id = <<"f", "r", "a", "m", "e", "-", "1">>

\* The number a hex text of a storage value denotes.
ValueOf(hex) == parseInt16(hex)

\* The storage changes the steps of a frame recorded, in their order.
RECURSIVE ChangesOf(_)
ChangesOf(steps) ==
    IF steps = <<>> THEN <<>>
    ELSE ChangesOf(popped(steps)) \o lastOf(steps).storageChanges

\* C34: within a frame, of two successive recorded storage changes to the
\* same slot the `before` of the second denotes the value the `after` of the
\* first denotes; and the `before` of a change denotes the value the storage
\* of the account running the frame held for the slot when the SSTORE was
\* reached, in call mode and in deploy mode.
C34_BeforeIsStoredValue ==
    [][\A e \in Executions :
          LET x == eng.x[e]
              y == eng'.x[e]
          IN  /\ \A f \in DOMAIN FramesOf(y) :
                    LET changes == ChangesOf(FramesOf(y)[f].steps)
                    IN  \A i, j \in DOMAIN changes :
                            (/\ i < j
                             /\ changes[i].slot = changes[j].slot
                             /\ \A k \in (i + 1)..(j - 1) : changes[k].slot # changes[i].slot)
                            => ValueOf(changes[j].before) = ValueOf(changes[i].after)
              /\ (x.op = "execute" /\ y.op = "execute") =>
                    \A f \in DOMAIN x.frames :
                        LET was == ChangesOf(x.frames[f].steps)
                            now == ChangesOf(y.frames[f].steps)
                        IN  Len(now) = Len(was) + 1 =>
                                LET held == getStorage(eng.evms[x.evm].stateManager,
                                                       addressOf(x), lastOf(now).slot)
                                IN  ValueOf(lastOf(now).before)
                                        = IF held = <<>> THEN 0
                                          ELSE ValueOf(bytesToHex(held))]_vars

\* The reasons of the six known texts, in the order in which
\* mapExceptionToReason tests for them.
ReasonsInOrder ==
    <<"revert", "outOfGas", "stackUnderflow", "stackOverflow", "invalidJump",
      "writeProtection">>

\* The known texts among the parts of a message.
KnownParts(parts) == {parts[k] : k \in DOMAIN parts} \cap DOMAIN ReasonsInOrder

\* C35: mapExceptionToReason returns a reason for everything thrown: with
\* the message taken in lower case, the reason of the first of "revert",
\* "out of gas", "stack underflow", "stack overflow", "invalid jump",
\* "static" that the message contains, in that order, and "invalid" when it
\* contains none; it never returns "success".
C35_ReasonOfFirstKnownText ==
    eng.op = "mapped" =>
        LET known == KnownParts(eng.exceptionError.about)
        IN  /\ eng.reason # "success"
            /\ eng.reason \in Range(ReasonsInOrder) \cup {"invalid"}
            /\ known = {} => eng.reason = "invalid"
            /\ known # {} =>
                  eng.reason = ReasonsInOrder[CHOOSE k \in known : \A j \in known : k <= j]

\* The reason of a message in upper case that holds "OUT OF GAS" before
\* "REVERT": revert.
C35_Witness ==
    /\ eng.op = "mapped"
    /\ eng.exceptionError.about = <<2, 1>>
    /\ has(eng.exceptionError, "message") /\ ~has(eng.exceptionError, "error")
    /\ eng.exceptionError.message[1] = "O"
    /\ eng.reason = "revert"

\* C36: after any sequence of stepForward, stepBackward, stepOver, stepOut,
\* jumpTo(i) for any integer i, jumpToStart, jumpToEnd, continueForward and
\* continueBackward, flatSteps is not empty and 0 <= globalStepIndex <=
\* len(flatSteps) - 1, so that the entry at the cursor, its frame, its step
\* index and its call stack exist.
C36_CursorInRange ==
    /\ Len(flatSteps) >= 1
    /\ globalStepIndex \in 0..(Len(flatSteps) - 1)
    /\ globalStepIndex + 1 \in DOMAIN flatSteps
    /\ currentFrameAt(globalStepIndex) \in DOMAIN trace
    /\ currentStepIndexAt(globalStepIndex) \in Int
    /\ Len(getCallStackAt(globalStepIndex)) >= 1

\* A stepBackward made at the first index of a trace of several entries,
\* the cursor still at the first index.
C36_Witness ==
    /\ last.op = "stepBackward"
    /\ last.from = 0
    /\ globalStepIndex = 0
    /\ Len(flatSteps) > 2

\* After a forward operation the cursor is not below where it was, and is
\* above it unless it was at the last index.
ForwardMoves ==
    last.op \in ForwardOps =>
        /\ globalStepIndex >= last.from
        /\ last.from < Len(flatSteps) - 1 => globalStepIndex > last.from
        /\ globalStepIndex <= Len(flatSteps) - 1

RECURSIVE NestingDepth(_)
NestingDepth(f) == IF f = Root THEN 0 ELSE 1 + NestingDepth(ParentOf(f))

\* C38: the call stack of every flat entry is the path of frames from the
\* root to the entry's frame: it starts with the root, ends with the entry's
\* frame, each frame in it is a child of the one before, and its length is 1
\* plus the nesting depth of the entry's frame; so canStepOut holds at an
\* entry exactly when the entry's frame is not the root.
C38_CallStackIsPath ==
    \A k \in DOMAIN flatSteps :
        LET entry == flatSteps[k]
            callStack == entry.callStack
        IN  /\ Len(callStack) >= 1
            /\ callStack[1] = Root
            /\ callStack[Len(callStack)] = entry.frame
            /\ \A i \in 1..(Len(callStack) - 1) : IsChildOf(callStack[i + 1], callStack[i])
            /\ Len(callStack) = 1 + NestingDepth(entry.frame)
            /\ canStepOutAt(k - 1) <=> entry.frame # Root

\* A trace with a frame two levels below the root, whose frame-end entry has
\* a call stack of three frames, and the cursor at the last entry, the
\* root's, where canStepOut does not hold.
C38_Witness ==
    /\ last.op = "jumpToEnd"
    /\ ~canStepOutAt(globalStepIndex)
    /\ \E k \in DOMAIN flatSteps :
          /\ flatSteps[k].isFrameEnd
          /\ Len(flatSteps[k].callStack) = 3
          /\ canStepOutAt(k - 1)

\* Every opcode byte of the bytes has a table entry and every immediate is
\* there in full.
WellFormedBytes(bytes) ==
    \A k \in DOMAIN InstructionsFrom(bytes, 1) :
        /\ InstructionsFrom(bytes, 1)[k].defined
        /\ ~Truncated(InstructionsFrom(bytes, 1)[k])

\* C39: for a bytecode of an even number of hex digits, with prefix 0x or 0X
\* or without, in either case, whose opcode bytes all have a table entry and
\* whose PUSHn all have their n immediate bytes, assemble(disassemble(b))
\* returns the digits of b in lower case after the prefix 0x.
C39_AssembleOfDisassemble ==
    (asm.op = "assemble" /\ asm.about.kind = "disassembled"
        /\ WellFormedBytes(asm.about.of.bytes)) =>
            /\ asm.result.ok
            /\ asm.result.value = <<"0", "x">> \o BytesHex(asm.about.of.bytes)

C39_Witness ==
    /\ asm.op = "assemble"
    /\ asm.about.kind = "disassembled"
    /\ asm.about.of.bytes = <<97, 0, 12>>
    /\ asm.about.bytecode = <<"6", "1", "0", "0", "0", "C">>
    /\ asm.source = <<"P", "U", "S", "H", "2", " ", "0", "x", "0", "0", "0", "c">>
    /\ asm.result.ok
    /\ asm.result.value = <<"0", "x", "6", "1", "0", "0", "0", "c">>

\* C40: when the input mode of useDebugger goes from mnemonic to bytecode and
\* back to mnemonic with no setSource on the bytecode text in between, the
\* mnemonic source is the text there was when the mnemonic view was left,
\* whether or not that text assembled.
C40_SwitchKeepsMnemonic ==
    (last.op = "setInputMode" /\ last.from = "bytecode"
        /\ last.newMode = "mnemonic" /\ ~last.edited) =>
            hook.mnemonicSource = last.left

====
